---- MODULE Spec2Model ----
(***************************************************************************)
(* Yquoter: the file cache (yquoter/cache.py), its eviction inventory, the *)
(* "newest cached path" pointer (yquoter/config.py) and the history fetch  *)
(* orchestrator (yquoter/datasource.py), as one state machine.             *)
(*                                                                         *)
(* Strings the code transforms (market, code, dates, source names) are     *)
(* sequences of one-character strings, so that lower(), strip() and the    *)
(* date parser are computed, not assumed.                                  *)
(***************************************************************************)
EXTENDS Integers, Sequences, FiniteSets, TLC

VARIABLES
    cache_file_list,     \* cache.py  _cache_file_list : sequence of <<mtime, path>>
    MAX_CACHE_ENTRIES,   \* cache.py  _MAX_CACHE_ENTRIES
    df_cache_path,       \* config.py df_cache_path ("" is NoPath)
    SOURCE_REGISTRY,     \* datasource.py _SOURCE_REGISTRY : name -> set of capabilities
    DEFAULT_SOURCE,      \* datasource.py _DEFAULT_SOURCE
    disk,                \* the files under the cache root: path -> [data, mtime]
    dirs,                \* the directories under the cache root that exist
    locked,              \* files whose os.remove raises (permission, in use)
    clock,               \* the filesystem clock that stamps mtimes
    run,                 \* history: the successive successful saves to distinct keys
    threads,             \* the calls in progress in two threads: where each is, its locals
    last                 \* history: the operation that produced this state and its outcome

vars == <<cache_file_list, MAX_CACHE_ENTRIES, df_cache_path, SOURCE_REGISTRY,
          DEFAULT_SOURCE, disk, dirs, locked, clock, run, threads, last>>

----------------------------------------------------------------------------
(* Bounds of the model *)

MaxCodes == 3        \* how many stock codes (hence cache keys) the cache operations draw from
MaxHistCodes == 1    \* how many stock codes get_stock_history is called with
MaxClock == 1        \* the filesystem clock runs 0..MaxClock
MaxEntriesArg == 2   \* set_max_cache_entries is called with -1..MaxEntriesArg
MaxHistEntriesArg == 1   \* the same, around the calls of get_stock_history
MaxLocked == 1       \* how many files can be undeletable at once
MaxQuoteCodes == 2   \* how long the code lists of get_stock_realtime get
MaxPointerCodes == 2 \* how many cache keys save_cache is called with around the pointer
MaxRestartCodes == 2 \* how many cache keys are saved around the restarts
MaxRaceCodes == 2    \* how many cache keys the calls in two threads are made with

----------------------------------------------------------------------------
(* Program constants *)

ModuleMaxCacheEntries == 100     \* cache.py: _MAX_CACHE_ENTRIES = 100
DefaultKlt == 101                \* datasource.py: klt: int = 101
DefaultFqt == 1                  \* datasource.py: fqt: int = 1

----------------------------------------------------------------------------
(* Strings: str.lower, str.strip, str.replace, str(int) *)

UpperCase == <<"A","B","C","D","E","F","G","H","I","J","K","L","M",
               "N","O","P","Q","R","S","T","U","V","W","X","Y","Z">>
LowerCase == <<"a","b","c","d","e","f","g","h","i","j","k","l","m",
               "n","o","p","q","r","s","t","u","v","w","x","y","z">>
Digits == <<"0","1","2","3","4","5","6","7","8","9">>

lower_char(c) ==
    IF \E i \in DOMAIN UpperCase : UpperCase[i] = c
    THEN LowerCase[CHOOSE i \in DOMAIN UpperCase : UpperCase[i] = c]
    ELSE c

str_lower(s) == [i \in 1..Len(s) |-> lower_char(s[i])]

str_replace_dash(s) == SelectSeq(s, LAMBDA c : c # "-")

\* s[a-1:b] of Python: the characters at positions a..b that exist
py_slice(s, a, b) ==
    LET hi == IF b > Len(s) THEN Len(s) ELSE b
    IN  IF a < 1 \/ a > hi THEN <<>> ELSE [i \in 1..(hi - a + 1) |-> s[a + i - 1]]

RECURSIVE str_lstrip(_)
str_lstrip(s) == IF s # <<>> /\ Head(s) = " " THEN str_lstrip(Tail(s)) ELSE s

RECURSIVE str_rstrip(_)
str_rstrip(s) ==
    IF s # <<>> /\ s[Len(s)] = " " THEN str_rstrip(SubSeq(s, 1, Len(s) - 1)) ELSE s

str_strip(s) == str_rstrip(str_lstrip(s))

IsDigit(c) == \E i \in DOMAIN Digits : Digits[i] = c
DigitVal(c) == (CHOOSE i \in DOMAIN Digits : Digits[i] = c) - 1
AllDigits(s) == \A i \in DOMAIN s : IsDigit(s[i])

RECURSIVE NumVal(_)
NumVal(s) == IF s = <<>> THEN 0 ELSE 10 * NumVal(SubSeq(s, 1, Len(s) - 1)) + DigitVal(s[Len(s)])

RECURSIVE int_str(_)
int_str(n) == IF n < 10 THEN <<Digits[n + 1]>> ELSE int_str(n \div 10) \o <<Digits[(n % 10) + 1]>>

RECURSIVE zero_pad(_, _)
zero_pad(s, w) == IF Len(s) >= w THEN s ELSE zero_pad(<<"0">> \o s, w)

----------------------------------------------------------------------------
(* utils.parse_date_str: datetime.strptime over four formats, then strftime *)

IsLeap(y) == (y % 4 = 0 /\ y % 100 # 0) \/ y % 400 = 0
DaysIn(y, m) ==
    IF m = 2 THEN (IF IsLeap(y) THEN 29 ELSE 28)
    ELSE IF m \in {4, 6, 9, 11} THEN 30 ELSE 31

\* strptime's field patterns: %m is 1[0-2]|0[1-9]|[1-9], %d is 3[01]|[12]\d|0[1-9]|[1-9]
FieldOk(f, hi) == f # <<>> /\ AllDigits(f) /\ NumVal(f) \in 1..hi /\ (Len(f) = 1 => f # <<"0">>)

NoDate == [ok |-> FALSE, out |-> <<>>]

\* the fields of one split, checked: digits, separators, month and day in range
ymd_fields(len_ok, y, s1, m, s2, d, sep) ==
    [ok |-> /\ len_ok
            /\ AllDigits(y) /\ s1 = sep /\ s2 = sep
            /\ FieldOk(m, 12) /\ FieldOk(d, 31)
            /\ NumVal(d) <= DaysIn(NumVal(y), NumVal(m)),
     y |-> y, m |-> m, d |-> d]

ymd_split(s, sep, k, ml, dl) ==
    ymd_fields(Len(s) = 4 + 2 * k + ml + dl,
               py_slice(s, 1, 4), py_slice(s, 5, 4 + k), py_slice(s, 5 + k, 4 + k + ml),
               py_slice(s, 5 + k + ml, 4 + 2 * k + ml),
               py_slice(s, 5 + 2 * k + ml, 4 + 2 * k + ml + dl), sep)

\* s split as YYYY sep M{ml} sep D{dl}; sep is <<>> or a one-character sequence
SplitYMD(s, sep, ml, dl) == ymd_split(s, sep, Len(sep), ml, dl)

\* the regex tries the two-digit alternatives of a field before the one-digit one
FieldWidths == << <<2, 2>>, <<2, 1>>, <<1, 2>>, <<1, 1>> >>

\* strftime("%Y%m%d")
strftime(r) == [ok |-> TRUE, out |-> r.y \o zero_pad(r.m, 2) \o zero_pad(r.d, 2)]

first_split(splits) ==
    IF \A i \in DOMAIN splits : ~splits[i].ok THEN NoDate
    ELSE strftime(splits[CHOOSE i \in DOMAIN splits :
                             splits[i].ok /\ \A j \in 1..(i - 1) : ~splits[j].ok])

strptime_date(s, sep) ==
    first_split([i \in DOMAIN FieldWidths |-> SplitYMD(s, sep, FieldWidths[i][1], FieldWidths[i][2])])

\* %H:%M:%S after the date and one space
ClockFieldOk(f, hi) == Len(f) \in {1, 2} /\ AllDigits(f) /\ NumVal(f) <= hi

clock_fields(t, c1, c2) ==
    /\ ClockFieldOk(py_slice(t, 1, c1 - 1), 23)
    /\ ClockFieldOk(py_slice(t, c1 + 1, c2 - 1), 59)
    /\ ClockFieldOk(py_slice(t, c2 + 1, Len(t)), 61)

clock_ok(t, colons) ==
    /\ Cardinality(colons) = 2
    /\ clock_fields(t, CHOOSE j \in colons : \A h \in colons : j <= h,
                       CHOOSE j \in colons : \A h \in colons : j >= h)

date_and_clock(date, t) ==
    IF date.ok /\ clock_ok(t, {j \in DOMAIN t : t[j] = ":"}) THEN date ELSE NoDate

datetime_at(s, i) == date_and_clock(strptime_date(py_slice(s, 1, i - 1), <<"-">>), py_slice(s, i + 1, Len(s)))

strptime_datetime(s) ==
    IF \A i \in DOMAIN s : s[i] # " " THEN NoDate
    ELSE datetime_at(s, CHOOSE i \in DOMAIN s : s[i] = " " /\ \A j \in 1..(i - 1) : s[j] # " ")

first_parsed(fs) ==
    IF \A i \in DOMAIN fs : ~fs[i].ok THEN NoDate
    ELSE fs[CHOOSE i \in DOMAIN fs : fs[i].ok /\ \A j \in 1..(i - 1) : ~fs[j].ok]

\* fmts_in = ["%Y-%m-%d", "%Y/%m/%d", "%Y%m%d", "%Y-%m-%d %H:%M:%S"], first that parses
parse_stripped(s) ==
    first_parsed(<<strptime_date(s, <<"-">>), strptime_date(s, <<"/">>), strptime_date(s, <<>>),
                   strptime_datetime(s)>>)

\* a parser that knows the first format only
parse_first_format(date_str) == strptime_date(str_strip(date_str), <<"-">>)

parse_date_str(date_str) == parse_stripped(str_strip(date_str))

----------------------------------------------------------------------------
(* cache.get_cache_path *)

CacheRoot == <<".","c","a","c","h","e">>   \* config.get_cache_root(): CACHE_ROOT default ".cache"

\* folder = os.path.join(root, market.lower(), code)
cache_folder(market, code) == <<CacheRoot, str_lower(market), code>>

\* a file name that leaves the resolution out
cache_filename_without_klt(start, end, klt, fqt) ==
    str_replace_dash(start) \o <<"_">> \o str_replace_dash(end)
        \o <<"_","f","q","t">> \o int_str(fqt) \o <<".","c","s","v">>

\* filename = f"{start_fmt}_{end_fmt}_klt{klt}_fqt{fqt}.csv"
cache_filename(start, end, klt, fqt) ==
    str_replace_dash(start) \o <<"_">> \o str_replace_dash(end) \o <<"_","k","l","t">>
        \o int_str(klt) \o <<"_","f","q","t">> \o int_str(fqt) \o <<".","c","s","v">>

\* path = os.path.join(folder, filename)
cache_path(market, code, start, end, klt, fqt) ==
    [folder |-> cache_folder(market, code), filename |-> cache_filename(start, end, klt, fqt)]

NoPath == [folder |-> <<>>, filename |-> <<>>]     \* config.py: df_cache_path = ""

\* os.path.join of two components: an absolute second one replaces the first
join_two(a, b) ==
    IF b # <<>> /\ Head(b) = "/" THEN b
    ELSE IF a = <<>> \/ a[Len(a)] = "/" THEN a \o b
    ELSE a \o <<"/">> \o b

RECURSIVE os_path_join(_)
os_path_join(parts) ==
    IF Len(parts) = 1 THEN parts[1]
    ELSE join_two(os_path_join(SubSeq(parts, 1, Len(parts) - 1)), parts[Len(parts)])

\* the path as the string the filesystem is given
path_str(path) == os_path_join(path.folder \o <<path.filename>>)

----------------------------------------------------------------------------
(* Tables (pandas DataFrames) and their CSV files *)

None == [cols |-> <<>>, rows |-> -1]     \* no table at all
NoStr == <<>>                            \* None or "" where a string is optional
BasicColumns == <<"date", "open", "high", "low", "close", "volume", "amount">>
FullColumns  == BasicColumns \o <<"change%", "turnover%", "change", "amplitude%">>

DF(cols, rows) == [cols |-> cols, rows |-> rows]
df_empty(df) == df.rows = 0 \/ df.cols = <<>>          \* DataFrame.empty (asked of a table)

ZeroBytes == [header |-> <<>>, nrows |-> -1]   \* a file truncated by a write that then failed
Garbage   == [header |-> <<>>, nrows |-> -2]   \* a file whose bytes are no CSV

\* df.to_csv(path, index=False): the header line and the rows
to_csv(df) == IF df.cols = <<>> THEN ZeroBytes ELSE [header |-> df.cols, nrows |-> df.rows]

\* pd.read_csv(path): raises on a file that is no CSV
read_csv_raises(data) == data \in {ZeroBytes, Garbage}
read_csv(data) == DF(data.header, data.nrows)

----------------------------------------------------------------------------
(* The filesystem *)

os_path_exists(dsk, path) == path \in DOMAIN dsk
os_path_getmtime(dsk, path) == dsk[path].mtime
os_remove(dsk, path) == [q \in DOMAIN dsk \ {path} |-> dsk[q]]
write_file(dsk, path, data, now) == (path :> [data |-> data, mtime |-> now]) @@ dsk

----------------------------------------------------------------------------
(* cache.py: the inventory and its eviction *)

\* list.sort(key=lambda x: x[0]) is stable: equal mtimes keep their order
RECURSIVE insert_stable(_, _)
insert_stable(sorted, e) ==
    IF sorted = <<>> THEN <<e>>
    ELSE IF Head(sorted)[1] <= e[1]
         THEN <<Head(sorted)>> \o insert_stable(Tail(sorted), e)
         ELSE <<e>> \o sorted

\* the inventory left in the order of its appends and replacements
sort_skipped(list) == list

RECURSIVE sort_by_mtime(_)
sort_by_mtime(list) ==
    IF list = <<>> THEN <<>>
    ELSE insert_stable(sort_by_mtime(SubSeq(list, 1, Len(list) - 1)), list[Len(list)])

\* an eviction pass that stops one entry early
files_to_delete_short(list, max) == Len(list) - max - 1

\* files_to_delete = len(_cache_file_list) - _MAX_CACHE_ENTRIES
files_to_delete(list, max) == Len(list) - max

\* for _ in range(files_to_delete): pop(0), then os.remove inside try/except
RECURSIVE cleanup_loop(_, _, _, _, _, _)
cleanup_loop(k, list, dsk, lck, evicted, failed) ==
    IF k <= 0 \/ list = <<>>
    THEN [list |-> list, disk |-> dsk, evicted |-> evicted, failed |-> failed]
    ELSE LET oldest_path == Head(list)[2]
             present     == os_path_exists(dsk, oldest_path)
             raises      == present /\ oldest_path \in lck
         IN  cleanup_loop(k - 1, Tail(list),
                          IF present /\ ~raises THEN os_remove(dsk, oldest_path) ELSE dsk,
                          lck, Append(evicted, Head(list)),
                          IF raises THEN failed \cup {oldest_path} ELSE failed)

cleanup_old_cache(list, max, dsk, lck) ==
    IF Len(list) <= max
    THEN [list |-> list, disk |-> dsk, evicted |-> <<>>, failed |-> {}]
    ELSE cleanup_loop(files_to_delete(list, max), list, dsk, lck, <<>>, {})

\* no eviction pass: the inventory and the files as they are
Untouched(list, dsk) == [list |-> list, disk |-> dsk, evicted |-> <<>>, failed |-> {}]

Resized(raised, max, cl) ==
    [raised |-> raised, max |-> max, list |-> cl.list, disk |-> cl.disk,
     evicted |-> cl.evicted, failed |-> cl.failed]

\* a resize that takes any number
set_max_cache_entries_unvalidated(max_entries, max, list, dsk, lck) ==
    Resized("", max_entries, cleanup_old_cache(list, max_entries, dsk, lck))

\* a resize that leaves the eviction to the next save
set_max_cache_entries_lazy(max_entries, max, list, dsk, lck) ==
    IF max_entries < 1
    THEN Resized("ValueError", max, Untouched(list, dsk))
    ELSE Resized("", max_entries, Untouched(list, dsk))

\* set_max_cache_entries: ValueError below 1, else the new maximum and an eviction pass
set_max_cache_entries(max_entries, max, list, dsk, lck) ==
    IF max_entries < 1
    THEN Resized("ValueError", max, Untouched(list, dsk))
    ELSE Resized("", max_entries, cleanup_old_cache(list, max_entries, dsk, lck))

\* an upsert that never looks for the entry
upsert_append(list, mtime, path) == Append(list, <<mtime, path>>)

\* the for/else of _add_cache_file: replace the entry of path, or append one
upsert_entry(list, mtime, path) ==
    IF \E i \in DOMAIN list : list[i][2] = path
    THEN [i \in DOMAIN list |-> IF list[i][2] = path THEN <<mtime, path>> ELSE list[i]]
    ELSE Append(list, <<mtime, path>>)

add_cache_file(path, list, max, dsk, lck) ==
    IF ~os_path_exists(dsk, path)
    THEN [list |-> list, disk |-> dsk, evicted |-> <<>>, failed |-> {}]
    ELSE cleanup_old_cache(sort_by_mtime(upsert_entry(list, os_path_getmtime(dsk, path), path)),
                           max, dsk, lck)

\* df.to_csv(path): "open" fails before the file is touched (also when the folder
\* is missing), "write" fails after the open has truncated it
WriteModes == {"none", "open", "write"}

\* a failed write that goes unnoticed
to_csv_never_raises(path, wfail, drs) == FALSE

to_csv_raises(path, wfail, drs) == wfail # "none" \/ path.folder \notin drs
to_csv_disk(path, df, wfail, drs, dsk, now) ==
    IF path.folder \notin drs \/ wfail = "open" THEN dsk
    ELSE IF wfail = "write" THEN write_file(dsk, path, ZeroBytes, now)
    ELSE write_file(dsk, path, to_csv(df), now)

\* save_cache with the pointer moved before the write is known to have worked
save_cache_pointer_first(path, df, wfail, drs, list, max, dsk, lck, ptr, now) ==
    IF to_csv_raises(path, wfail, drs)
    THEN [raised |-> "CacheSaveError", cause |-> "OSError", list |-> list,
          disk |-> to_csv_disk(path, df, wfail, drs, dsk, now), ptr |-> path,
          evicted |-> <<>>, failed |-> {}]
    ELSE [raised |-> "", cause |-> "", ptr |-> path,
          list |-> add_cache_file(path, list, max, to_csv_disk(path, df, wfail, drs, dsk, now), lck).list,
          disk |-> add_cache_file(path, list, max, to_csv_disk(path, df, wfail, drs, dsk, now), lck).disk,
          evicted |-> add_cache_file(path, list, max, to_csv_disk(path, df, wfail, drs, dsk, now), lck).evicted,
          failed |-> add_cache_file(path, list, max, to_csv_disk(path, df, wfail, drs, dsk, now), lck).failed]

save_cache(path, df, wfail, drs, list, max, dsk, lck, ptr, now) ==
    LET dsk1 == to_csv_disk(path, df, wfail, drs, dsk, now)
    IN  IF to_csv_raises(path, wfail, drs)
        THEN [raised |-> "CacheSaveError", cause |-> "OSError", list |-> list, disk |-> dsk1,
              ptr |-> ptr, evicted |-> <<>>, failed |-> {}]
        ELSE LET a == add_cache_file(path, list, max, dsk1, lck)
             IN  [raised |-> "", cause |-> "", list |-> a.list, disk |-> a.disk,
                  ptr |-> path, evicted |-> a.evicted, failed |-> a.failed]

\* init_cache_manager: os.walk lists the .csv files in an order the filesystem
\* chooses (scan), the sort puts them oldest first, then the eviction pass runs
Scans(dsk) ==
    {sq \in [1..Cardinality(DOMAIN dsk) -> DOMAIN dsk] :
        \A i, j \in DOMAIN sq : i # j => sq[i] # sq[j]}

\* a rescan that trusts the order of the walk
init_cache_manager_unsorted(scan, max, dsk, lck) ==
    cleanup_old_cache([i \in DOMAIN scan |-> <<os_path_getmtime(dsk, scan[i]), scan[i]>>],
                      max, dsk, lck)

init_cache_manager(scan, max, dsk, lck) ==
    cleanup_old_cache(sort_by_mtime([i \in DOMAIN scan |-> <<os_path_getmtime(dsk, scan[i]), scan[i]>>]),
                      max, dsk, lck)

\* __init__.py: init_cache_manager(max_entries=50), called when the package is imported
PackageMaxCacheEntries == 50

\* cache.init_cache(), which __init__.py imports and calls after it has set the
\* maximum: the rebuild of the inventory by a scan of the cache tree
init_cache(scan, max, dsk, lck) == init_cache_manager(scan, max, dsk, lck)

\* __init__.init_cache_manager(max_entries): set_max_cache_entries, then init_cache;
\* r is what set_max_cache_entries answered, scan the walk of the tree it left
package_init_cache_manager(r, scan, lck) ==
    IF r.raised # ""
    THEN r
    ELSE [raised |-> "", max |-> r.max,
          list |-> init_cache(scan, r.max, r.disk, lck).list,
          disk |-> init_cache(scan, r.max, r.disk, lck).disk,
          evicted |-> r.evicted \o init_cache(scan, r.max, r.disk, lck).evicted,
          failed |-> r.failed \cup init_cache(scan, r.max, r.disk, lck).failed]

----------------------------------------------------------------------------
(* datasource.py: the registry, the frequency table, schema validation *)

SPIDER  == <<"s","p","i","d","e","r">>
TUSHARE == <<"t","u","s","h","a","r","e">>
HISTORY == <<"h","i","s","t","o","r","y">>
REALTIME == <<"r","e","a","l","t","i","m","e">>
FINANCIALS == <<"f","i","n","a","n","c","i","a","l","s">>
PROFILE == <<"p","r","o","f","i","l","e">>
FACTORS == <<"f","a","c","t","o","r","s">>

\* _SOURCE_REGISTRY = {"spider": {"history": get_stock_history_spider, ...}}
InitialRegistry ==
    SPIDER :> (HISTORY :> "get_stock_history_spider"
               @@ REALTIME :> "get_stock_realtime_spider"
               @@ FINANCIALS :> "get_stock_financials_spider"
               @@ PROFILE :> "get_stock_profile_spider"
               @@ FACTORS :> "get_stock_factors_spider")

FREQ_TO_KLT ==
    <<"d","a","i","l","y">> :> 1 @@ <<"d","a","y">> :> 1 @@ <<"d">> :> 1
    @@ <<"w","e","e","k","l","y">> :> 2 @@ <<"w","e","e","k">> :> 2 @@ <<"w">> :> 2
    @@ <<"m","o","n","t","h","l","y">> :> 3 @@ <<"m","o","n","t","h">> :> 3 @@ <<"m">> :> 3
    @@ <<"1","m","i","n">> :> 101 @@ <<"1","m">> :> 101
    @@ <<"5","m","i","n">> :> 102 @@ <<"5","m">> :> 102
    @@ <<"1","5","m","i","n">> :> 103 @@ <<"1","5","m">> :> 103
    @@ <<"3","0","m","i","n">> :> 104 @@ <<"3","0","m">> :> 104
    @@ <<"6","0","m","i","n">> :> 105 @@ <<"6","0","m">> :> 105 @@ <<"1","h">> :> 105

\* utils._validate_dataframe(df, fields): the required columns of the field set,
\* DataFormatError naming the missing ones, else the projection in canonical order
required_columns(fields) == IF fields = "full" THEN FullColumns ELSE BasicColumns
df_columns(df) == IF df = None THEN {} ELSE {df.cols[i] : i \in DOMAIN df.cols}
missing_columns(df, fields) ==
    SelectSeq(required_columns(fields), LAMBDA c : c \notin df_columns(df))

validate_dataframe(df, fields) ==
    IF missing_columns(df, fields) # <<>>
    THEN [raised |-> "DataFormatError", missing |-> missing_columns(df, fields), df |-> None]
    ELSE [raised |-> "", missing |-> <<>>, df |-> DF(required_columns(fields), df.rows)]

\* a cache that is never found
cache_exists_never(dsk, path) == FALSE

\* a load that hands on whatever the parser makes of the file
load_cache_unguarded(dsk, path) == IF path \notin DOMAIN dsk THEN None ELSE read_csv(dsk[path].data)

\* cache.cache_exists / cache.load_cache: None for a missing, unreadable or empty file
cache_exists(dsk, path) == path \in DOMAIN dsk
load_cache(dsk, path) ==
    IF ~cache_exists(dsk, path) THEN None
    ELSE IF read_csv_raises(dsk[path].data) THEN None
    ELSE IF df_empty(read_csv(dsk[path].data)) THEN None
    ELSE read_csv(dsk[path].data)

----------------------------------------------------------------------------
(* datasource.get_stock_history *)

\* lines 127-133 and 156-166: what the call derives from its arguments alone
normalized(market, code, start, end, freq_ok, klt, fqt) ==
    [dates_ok |-> start.ok /\ end.ok,
     freq_ok  |-> freq_ok,
     klt      |-> klt,
     path     |-> IF start.ok /\ end.ok
                  THEN cache_path(market, code, start.out, end.out, klt, fqt)
                  ELSE NoPath]

\* a freq that does not reach the resolution
freq_to_klt_ignored(freq, klt) == klt

\* if freq: klt = FREQ_TO_KLT[freq.lower()], ParameterError for an unknown one
freq_to_klt(freq, klt) == IF freq # NoStr /\ freq \in DOMAIN FREQ_TO_KLT THEN FREQ_TO_KLT[freq] ELSE klt

normalize_with(req, freq) ==
    normalized(str_lower(req.market), req.code, parse_date_str(req.start), parse_date_str(req.end),
               freq = NoStr \/ freq \in DOMAIN FREQ_TO_KLT, freq_to_klt(freq, req.klt), req.fqt)

normalize_request(req) == normalize_with(req, str_lower(req.freq))

\* the source argument ignored
resolve_source_default(source, default) == str_lower(default)

\* src = (source or _DEFAULT_SOURCE).lower()
resolve_source(source, default) == str_lower(IF source = NoStr THEN default ELSE source)

\* the cached table handed back as it is
hit_return_raw(df_cache, fields) == [raised |-> "", missing |-> <<>>, df |-> df_cache]

\* the return of a cache hit (line 172)
hit_return(df_cache, fields) == validate_dataframe(df_cache, fields)

\* the return of a live fetch (line 216)
fetch_return(df, fields) == validate_dataframe(df, fields)

\* the provider's exception let through as it is
fetch_error_uncaught(exc) == [raised |-> exc, cause |-> ""]

\* the provider is called inside try/except Exception (lines 199-206)
fetch_error(exc) == [raised |-> "DataFetchError", cause |-> exc]

\* a fetch whose result is saved whatever it is
should_save_always(df) == TRUE

\* line 209: the fetched table is saved when it is not None and not empty
should_save(df) == df # None /\ ~df_empty(df)

\* a cache that is consulted only for a source that could have fetched
answered_if_capable(usable, capable) == usable /\ capable

\* lines 167-179: the cache is consulted before the source is asked whether it
\* has a history function
answered_from_cache(usable, capable) == usable

NoCall == [raises |-> "", df |-> None, klt |-> 0]     \* the provider was not called

\* lines 183-202: the provider is called with the resolution the key was made
\* of, and raises or returns
provider_call(prov, nreq) == [raises |-> prov.raises, df |-> prov.df, klt |-> nreq.klt]

Answer(outcome, cause, path, called, got, ret, missing, list, dsk, drs, ptr, evicted, failed) ==
    [outcome |-> outcome, cause |-> cause, path |-> path, called |-> called, got |-> got,
     ret |-> ret, missing |-> missing, list |-> list, disk |-> dsk, dirs |-> drs, ptr |-> ptr,
     evicted |-> evicted, failed |-> failed]

\* the call fails before it touched anything
Refuse(outcome, cause, path) ==
    Answer(outcome, cause, path, FALSE, NoCall, None, <<>>, cache_file_list, disk, dirs,
           df_cache_path, <<>>, {})

\* env: what the surroundings do during the call: mkfail (os.makedirs raises),
\* prov (the provider raises or returns), wfail (how to_csv fails, if it does)
get_stock_history(req, nreq, env) ==
    LET src      == resolve_source(req.source, DEFAULT_SOURCE)
        path     == nreq.path
        drs1     == dirs \cup {path.folder}
        df_cache == load_cache(disk, path)
        hit      == hit_return(df_cache, req.fields)
        df       == env.prov.df
        got      == provider_call(env.prov, nreq)
        sv       == save_cache(path, df, env.wfail, drs1, cache_file_list, MAX_CACHE_ENTRIES,
                               disk, locked, df_cache_path, clock)
        out      == fetch_return(df, req.fields)
    IN  IF ~nreq.dates_ok THEN Refuse("DateFormatError", "", NoPath)
        ELSE IF src = TUSHARE /\ TUSHARE \notin DOMAIN SOURCE_REGISTRY
        THEN Refuse("DataSourceError", "", NoPath)
        ELSE IF src \notin DOMAIN SOURCE_REGISTRY THEN Refuse("DataSourceError", "", NoPath)
        ELSE IF ~nreq.freq_ok THEN Refuse("ParameterError", "", NoPath)
        ELSE IF env.mkfail THEN Refuse("CacheDirectoryError", "OSError", NoPath)
        ELSE IF answered_from_cache(cache_exists(disk, path) /\ df_cache # None /\ ~df_empty(df_cache),
                                    HISTORY \in DOMAIN SOURCE_REGISTRY[src])
        THEN Answer(IF hit.raised = "" THEN "ok" ELSE hit.raised, "", path, FALSE, NoCall,
                    hit.df, hit.missing, cache_file_list, disk, drs1, path, <<>>, {})
        ELSE IF HISTORY \notin DOMAIN SOURCE_REGISTRY[src]
        THEN Answer("DataSourceError", "", path, FALSE, NoCall, None, <<>>, cache_file_list, disk,
                    drs1, df_cache_path, <<>>, {})
        ELSE IF env.prov.raises # ""
        THEN Answer(fetch_error(env.prov.raises).raised, fetch_error(env.prov.raises).cause,
                    path, TRUE, got, None, <<>>, cache_file_list, disk, drs1,
                    df_cache_path, <<>>, {})
        ELSE IF should_save(df)
        THEN IF sv.raised # ""
             THEN Answer(sv.raised, sv.cause, path, TRUE, got, None, <<>>, sv.list, sv.disk,
                         drs1, sv.ptr, sv.evicted, sv.failed)
             ELSE Answer(IF out.raised = "" THEN "ok" ELSE out.raised, "", path, TRUE, got,
                         out.df, out.missing, sv.list, sv.disk, drs1, path, sv.evicted, sv.failed)
        ELSE Answer(IF out.raised = "" THEN "ok" ELSE out.raised, "", path, TRUE, got,
                    out.df, out.missing, cache_file_list, disk, drs1, df_cache_path, <<>>, {})

----------------------------------------------------------------------------
(* datasource.register_source, datasource.set_default_source *)

\* a registration filed under the name as it was spelled
register_source_as_spelled(registry, source_name, func_type, func) ==
    (source_name :> ((str_lower(func_type) :> func)
                     @@ (IF source_name \in DOMAIN registry THEN registry[source_name] ELSE <<>>)))
        @@ registry

\* lines 56-62: both names lowered, the source's bundle created if need be,
\* the function stored under the capability
register_source(registry, source_name, func_type, func) ==
    (str_lower(source_name) :>
         ((str_lower(func_type) :> func)
          @@ (IF str_lower(source_name) \in DOMAIN registry
              THEN registry[str_lower(source_name)] ELSE <<>>)))
        @@ registry

\* a default that is taken on trust
set_default_source_unchecked(name, registry, default) == [raised |-> "", default |-> str_lower(name)]

\* lines 83-86
set_default_source(name, registry, default) ==
    IF str_lower(name) \notin DOMAIN registry
    THEN [raised |-> "DataSourceError", default |-> default]
    ELSE [raised |-> "", default |-> str_lower(name)]

----------------------------------------------------------------------------
(* datasource.get_stock_realtime *)

\* realtime tables carry their rows: rows is the sequence of the rows' codes
quotes_empty(df) == df.rows = <<>> \/ df.cols = <<>>          \* DataFrame.empty
BlankFrame == [cols |-> <<>>, rows |-> <<>>]                 \* pd.DataFrame()

\* if isinstance(codes, str): codes = [codes]  (the same for fields)
as_list(arg) == IF arg.is_str THEN <<arg.value>> ELSE arg.value

RECURSIVE union_columns(_, _)
union_columns(cols, more) ==
    IF more = <<>> THEN cols
    ELSE union_columns(IF \E i \in DOMAIN cols : cols[i] = Head(more) THEN cols
                       ELSE Append(cols, Head(more)), Tail(more))

\* pd.concat(all_results, ignore_index=True): the rows in the order of the list
RECURSIVE pd_concat(_)
pd_concat(dfs) ==
    IF dfs = <<>> THEN BlankFrame
    ELSE [cols |-> union_columns(pd_concat(SubSeq(dfs, 1, Len(dfs) - 1)).cols, dfs[Len(dfs)].cols),
          rows |-> pd_concat(SubSeq(dfs, 1, Len(dfs) - 1)).rows \o dfs[Len(dfs)].rows]

\* utils._validate_dataframe for quotes: the code column and the requested fields
DefaultQuoteFields == <<"code", "latest", "pe_dynamic", "open", "high", "low", "pre_close">>
quote_columns(fields) ==
    <<"code">> \o SelectSeq(IF fields = <<>> THEN DefaultQuoteFields ELSE fields, LAMBDA c : c # "code")
missing_quote_columns(df, fields) ==
    SelectSeq(quote_columns(fields), LAMBDA c : \A i \in DOMAIN df.cols : df.cols[i] # c)

validate_quotes(df, fields) ==
    IF missing_quote_columns(df, fields) # <<>>
    THEN [raised |-> "DataFormatError", missing |-> missing_quote_columns(df, fields), df |-> None]
    ELSE [raised |-> "", missing |-> <<>>, df |-> [cols |-> quote_columns(fields), rows |-> df.rows]]

\* line 342: what validation makes of pd.DataFrame() is the surroundings' choice
\* (blank): an empty table with the columns, or DataFormatError
validate_blank(fields, blank) ==
    IF blank = "DataFormatError"
    THEN [raised |-> "DataFormatError", missing |-> quote_columns(fields), df |-> None]
    ELSE [raised |-> "", missing |-> <<>>, df |-> [cols |-> quote_columns(fields), rows |-> <<>>]]

\* one invocation of the provider: the function, its code/codes argument, what came back
Invocation(func, arg, result) == [func |-> func, arg |-> arg, raises |-> result.raises, df |-> result.df]

\* lines 299-300, 328-329: a result is kept when it is a table with rows
kept(result) == result.raises = "" /\ result.df # None /\ ~quotes_empty(result.df)

\* a failure that ends the loop over the codes
RECURSIVE iterate_abort(_, _, _, _)
iterate_abort(func, codes, results, i) ==
    IF i > Len(codes) THEN [calls |-> <<>>, all_results |-> <<>>]
    ELSE IF results[i].raises # ""
    THEN [calls |-> <<Invocation(func, codes[i], results[i])>>, all_results |-> <<>>]
    ELSE [calls |-> <<Invocation(func, codes[i], results[i])>>
                        \o iterate_abort(func, codes, results, i + 1).calls,
          all_results |-> (IF kept(results[i]) THEN <<results[i].df>> ELSE <<>>)
                              \o iterate_abort(func, codes, results, i + 1).all_results]

\* lines 283-307: for code in codes, the call inside try/except Exception: continue
RECURSIVE iterate_codes(_, _, _, _)
iterate_codes(func, codes, results, i) ==
    IF i > Len(codes) THEN [calls |-> <<>>, all_results |-> <<>>]
    ELSE [calls |-> <<Invocation(func, codes[i], results[i])>>
                        \o iterate_codes(func, codes, results, i + 1).calls,
          all_results |-> (IF kept(results[i]) THEN <<results[i].df>> ELSE <<>>)
                              \o iterate_codes(func, codes, results, i + 1).all_results]

\* a failed batch passed off as an empty one
batch_error_skipped(exc) == [raised |-> "", cause |-> ""]

\* lines 333-336: the batch call's exception is raised on as DataFetchError
batch_error(exc) == [raised |-> "DataFetchError", cause |-> exc]

\* lines 309-331: one call with the full list of codes
batch_codes(func, codes, results) ==
    [calls |-> <<Invocation(func, codes, results[1])>>,
     all_results |-> IF kept(results[1]) THEN <<results[1].df>> ELSE <<>>]

\* lines 338-347
quotes_return(all_results, fields, blank) ==
    IF all_results = <<>> THEN validate_blank(fields, blank)
    ELSE validate_quotes(pd_concat(all_results), fields)

QuoteAnswer(outcome, cause, calls, ret, missing) ==
    Answer(outcome, cause, NoPath, calls # <<>>, calls, ret, missing, cache_file_list, disk, dirs,
           df_cache_path, <<>>, {})

quotes_answer(fetched, out) ==
    QuoteAnswer(IF out.raised = "" THEN "ok" ELSE out.raised, "", fetched.calls, out.df, out.missing)

\* env: results (what the provider does at each invocation), blank (see validate_blank)
get_stock_realtime(req, env) ==
    LET src  == resolve_source(req.source, DEFAULT_SOURCE)
        func == SOURCE_REGISTRY[src][REALTIME]
    IN  IF src = TUSHARE /\ TUSHARE \notin DOMAIN SOURCE_REGISTRY
        THEN QuoteAnswer("DataSourceError", "", <<>>, None, <<>>)
        ELSE IF src \notin DOMAIN SOURCE_REGISTRY
        THEN QuoteAnswer("DataSourceError", "", <<>>, None, <<>>)
        ELSE IF REALTIME \notin DOMAIN SOURCE_REGISTRY[src]
        THEN QuoteAnswer("DataSourceError", "", <<>>, None, <<>>)
        ELSE IF src = TUSHARE
        THEN quotes_answer(iterate_codes(func, as_list(req.codes), env.results, 1),
                           quotes_return(iterate_codes(func, as_list(req.codes), env.results, 1).all_results,
                                         as_list(req.fields), env.blank))
        ELSE IF env.results[1].raises # ""
        THEN QuoteAnswer(batch_error(env.results[1].raises).raised,
                         batch_error(env.results[1].raises).cause,
                         batch_codes(func, as_list(req.codes), env.results).calls, None, <<>>)
        ELSE quotes_answer(batch_codes(func, as_list(req.codes), env.results),
                           quotes_return(batch_codes(func, as_list(req.codes), env.results).all_results,
                                         as_list(req.fields), env.blank))

----------------------------------------------------------------------------
(* The inputs the operations are called with *)

CodeTable == << <<"6","0","0","5","1","9">>, <<"0","0","0","0","0","1">>,
                <<"0","0","2","4","7","5">>, <<"0","0","7","0","0">>,
                <<"A","A","P","L">> >>
Codes(n) == {CodeTable[i] : i \in 1..n}

MarketCn   == <<"c","n">>
MarketCnUp == <<"C","N">>
StartDash  == <<"2","0","2","4","-","1","0","-","0","2">>
StartPlain == <<"2","0","2","4","1","0","0","2">>
StartBad   == <<"2","0","2","4","-","1","3","-","0","2">>
EndDash    == <<"2","0","2","4","-","1","0","-","1","2">>
Nonexistent == <<"n","o","n","e","x","i","s","t","e","n","t">>
FreqWeek   == <<"W","e","e","k">>
FreqBogus  == <<"b","o","g","u","s">>

Request(market, code, start, end, source, freq, klt, fqt, fields) ==
    [market |-> market, code |-> code, start |-> start, end |-> end, source |-> source,
     freq |-> freq, klt |-> klt, fqt |-> fqt, fields |-> fields]

\* the plain request for a code, and the same request with one argument varied
PlainRequest(code, fields) ==
    Request(MarketCn, code, StartDash, EndDash, NoStr, NoStr, DefaultKlt, DefaultFqt, fields)

VariedRequests(c) ==
    {[PlainRequest(c, "basic") EXCEPT !.market = MarketCnUp],
     [PlainRequest(c, "basic") EXCEPT !.start = StartPlain],
     [PlainRequest(c, "basic") EXCEPT !.start = StartBad],
     [PlainRequest(c, "basic") EXCEPT !.source = Nonexistent],
     [PlainRequest(c, "basic") EXCEPT !.source = TUSHARE],
     [PlainRequest(c, "basic") EXCEPT !.freq = FreqWeek],
     [PlainRequest(c, "basic") EXCEPT !.freq = FreqBogus]}

HistRequests(n) ==
    {PlainRequest(c, "basic") : c \in Codes(n)} \cup {PlainRequest(CodeTable[1], "full")}
        \cup VariedRequests(CodeTable[1])

\* one query in two spellings of market and code
MarketUs   == <<"u","s">>
MarketUsUp == <<"U","S">>
CodeAapl   == <<"a","a","p","l">>
CodeAaplUp == <<"A","A","P","L">>
LowerCaseRequest == [PlainRequest(CodeAapl, "basic") EXCEPT !.market = MarketUs]
UpperCaseRequest == [PlainRequest(CodeAaplUp, "basic") EXCEPT !.market = MarketUsUp]
CaseRequests == {LowerCaseRequest, UpperCaseRequest}

AllRequests == HistRequests(Len(CodeTable)) \cup CaseRequests
Normalized == [req \in AllRequests |-> normalize_request(req)]

\* the cache paths of the plain requests: what save_cache is called with
CachePaths(n) == {Normalized[PlainRequest(c, "basic")].path : c \in Codes(n)}

\* what a provider hands back: a complete table, a table with an extra column and
\* its columns in another order, a table without volume, an empty table, None
TableFull   == DF(FullColumns, 1)
TableExtra  == DF(<<"code", "date", "close", "open", "high", "low", "volume", "amount">>, 1)
TableNoVol  == DF(<<"date", "open", "high", "low", "close", "amount">>, 1)
TableNoRows == DF(BasicColumns, 0)
ProviderTables == {TableFull, TableExtra, TableNoVol, TableNoRows}

Returns(df) == [raises |-> "", df |-> df]
Raises(exc) == [raises |-> exc, df |-> None]
ProviderOutcomes == {Raises("ConnectionError")} \cup {Returns(df) : df \in ProviderTables \cup {None}}

Env(mkfail, prov, wfail) == [mkfail |-> mkfail, prov |-> prov, wfail |-> wfail]

\* no request (a cache operation called directly), nothing going wrong around the call
NoRequest == Request(NoStr, NoStr, NoStr, NoStr, NoStr, NoStr, 0, 0, "-")
NoEnv == Env(FALSE, Returns(None), "none")

\* the surroundings that can make a difference to this call in this state
HistEnvs(req, nreq, wmodes) ==
    IF ~nreq.dates_ok \/ ~nreq.freq_ok
       \/ resolve_source(req.source, DEFAULT_SOURCE) \notin DOMAIN SOURCE_REGISTRY
    THEN {NoEnv}
    ELSE UNION { UNION { {Env(mk, prov, wf) :
                             wf \in IF should_save(prov.df) THEN wmodes ELSE {"none"}} :
                         prov \in IF mk \/ load_cache(disk, nreq.path) # None
                                  THEN {Returns(None)} ELSE ProviderOutcomes} :
                 mk \in IF nreq.path.folder \in dirs THEN {FALSE} ELSE BOOLEAN }

\* what register_source and set_default_source are called with
TuShareMixed == <<"T","u","S","h","a","r","e">>
HistoryMixed == <<"H","i","s","t","o","r","y">>
RealtimeUpper == <<"R","E","A","L","T","I","M","E">>
SourceNames == {TUSHARE, TuShareMixed}
Capabilities == {HistoryMixed, REALTIME, RealtimeUpper}
Providers == {"provider_a", "provider_b"}
DefaultNames == {SPIDER, TuShareMixed, Nonexistent}

RegRequest(source_name, func_type, func) ==
    [source_name |-> source_name, func_type |-> func_type, func |-> func]

\* what get_stock_realtime is called with: one code as a string, or a list of codes
OneCode(code) == [is_str |-> TRUE, value |-> code]
CodeList(codes) == [is_str |-> FALSE, value |-> codes]
QuoteCodes(n) == {OneCode(CodeTable[1])} \cup {CodeList(SubSeq(CodeTable, 1, k)) : k \in 0..n}

QuoteRequest(market, codes, fields, source) ==
    [market |-> market, codes |-> codes, fields |-> fields, source |-> source]

QuoteRequests(n, sources) ==
    {QuoteRequest(MarketCn, codes, OneCode("latest"), source) : codes \in QuoteCodes(n), source \in sources}

\* what a realtime provider hands back for the codes it was asked for
QuoteColumns == <<"latest", "code", "open">>
QuoteTable(rows) == [cols |-> QuoteColumns, rows |-> rows]
QuoteKinds == {"raise", "none", "empty", "table"}
QuoteResult(kind, rows) ==
    IF kind = "raise" THEN Raises("ConnectionError")
    ELSE IF kind = "none" THEN Returns(None)
    ELSE IF kind = "empty" THEN Returns(QuoteTable(<<>>))
    ELSE Returns(QuoteTable(rows))

QuoteEnv(results, blank) == [results |-> results, blank |-> blank]

\* the surroundings of an iterated fetch, and of a batch fetch
IterateEnvs(codes, kinds) ==
    UNION { {QuoteEnv([i \in DOMAIN codes |-> QuoteResult(ks[i], <<codes[i]>>)], blank) :
                blank \in IF \E i \in DOMAIN codes : ks[i] = "table"
                          THEN {"table"} ELSE {"table", "DataFormatError"}} :
            ks \in [DOMAIN codes -> kinds] }

BatchEnvs(codes, kinds) ==
    UNION { {QuoteEnv(<<QuoteResult(k, codes)>>, blank) :
                blank \in IF kept(QuoteResult(k, codes)) \/ k = "raise"
                          THEN {"table"} ELSE {"table", "DataFormatError"}} :
            k \in kinds }

QuoteEnvs(req, kinds) ==
    IF \/ resolve_source(req.source, DEFAULT_SOURCE) \notin DOMAIN SOURCE_REGISTRY
       \/ REALTIME \notin DOMAIN SOURCE_REGISTRY[resolve_source(req.source, DEFAULT_SOURCE)]
    THEN {QuoteEnv(<<>>, "table")}
    ELSE IF resolve_source(req.source, DEFAULT_SOURCE) = TUSHARE
    THEN IterateEnvs(as_list(req.codes), kinds)
    ELSE BatchEnvs(as_list(req.codes), kinds)

----------------------------------------------------------------------------
(* The state machine *)

\* what the call found at its cache path when it looked (history)
Found(dsk, path) ==
    IF path = NoPath THEN "-"
    ELSE IF path \notin DOMAIN dsk THEN "absent"
    ELSE IF dsk[path].data.nrows < 1 THEN "unusable"
    ELSE "table"


Last(op, req, env, a) ==
    [op |-> op, req |-> req, env |-> env, found |-> Found(disk, a.path),
     outcome |-> a.outcome, cause |-> a.cause, path |-> a.path,
     called |-> a.called, got |-> a.got, ret |-> a.ret, missing |-> a.missing,
     evicted |-> Len(a.evicted), failed |-> a.failed]

\* a cache operation's answer: no provider, no returned table
CacheAnswer(outcome, cause, path, list, dsk, ptr, evicted, failed) ==
    Answer(outcome, cause, path, FALSE, NoCall, None, <<>>, list, dsk, dirs, ptr, evicted, failed)

Quiet(outcome, path) ==
    CacheAnswer(outcome, "", path, cache_file_list, disk, df_cache_path, <<>>, {})

\* the caller is between two calls: the previous answer has been taken
Idle == last.op = "idle"
IdleLast == Last("idle", NoRequest, NoEnv, Quiet("ok", NoPath))

Apply(op, req, env, a) ==
    /\ Idle
    /\ cache_file_list' = a.list
    /\ disk' = a.disk
    /\ dirs' = a.dirs
    /\ df_cache_path' = a.ptr
    /\ last' = Last(op, req, env, a)

\* the two threads that call into the module, and a thread that is in no call
Threads == {1, 2}
Parked ==
    [pc |-> "parked", op |-> "-", path |-> NoPath, df |-> None, mtime |-> 0, i |-> 0, k |-> 0,
     oldest_path |-> NoPath, raised |-> "", called |-> FALSE, wrote_last |-> FALSE,
     removed |-> {}, base |-> <<>>]

\* module load: cache.py 13-14, config.py 15, datasource.py 15-24, nothing on disk
Init ==
    /\ cache_file_list = <<>>
    /\ MAX_CACHE_ENTRIES = ModuleMaxCacheEntries
    /\ df_cache_path = NoPath
    /\ SOURCE_REGISTRY = InitialRegistry
    /\ DEFAULT_SOURCE = SPIDER
    /\ disk = <<>>
    /\ dirs = {}
    /\ locked = {}
    /\ clock = 0
    /\ run = <<>>
    /\ threads = [t \in Threads |-> Parked]
    /\ last = IdleLast

\* path = cache.get_cache_path(...) then cache.save_cache(path, df)
SaveCache(n, dfs, wmodes) ==
    \E path \in CachePaths(n), df \in dfs :
        \E mkfail \in IF path.folder \in dirs THEN {FALSE} ELSE BOOLEAN :
            \E wfail \in IF mkfail THEN {"none"} ELSE wmodes :
                LET drs1 == dirs \cup {path.folder}
                    sv   == save_cache(path, df, wfail, drs1, cache_file_list, MAX_CACHE_ENTRIES,
                                       disk, locked, df_cache_path, clock)
                    a    == IF mkfail
                            THEN Quiet("CacheDirectoryError", NoPath)
                            ELSE [CacheAnswer(IF sv.raised = "" THEN "ok" ELSE sv.raised, sv.cause,
                                              path, sv.list, sv.disk, sv.ptr, sv.evicted, sv.failed)
                                    EXCEPT !.dirs = drs1]
                IN  /\ Apply("save_cache", NoRequest, Env(mkfail, Returns(df), wfail), a)
                    /\ UNCHANGED <<MAX_CACHE_ENTRIES, SOURCE_REGISTRY, DEFAULT_SOURCE, locked, clock>>

\* cache.set_max_cache_entries(max_entries)
Resize(max_entries, r) ==
    /\ MAX_CACHE_ENTRIES' = r.max
    /\ Apply("set_max_cache_entries", [max_entries |-> max_entries], NoEnv,
             CacheAnswer(IF r.raised = "" THEN "ok" ELSE r.raised, "", NoPath, r.list, r.disk,
                         df_cache_path, r.evicted, r.failed))
    /\ UNCHANGED <<SOURCE_REGISTRY, DEFAULT_SOURCE, locked, clock>>

SetMaxCacheEntries(n) ==
    \E max_entries \in (-1)..n :
        Resize(max_entries, set_max_cache_entries(max_entries, MAX_CACHE_ENTRIES, cache_file_list,
                                                  disk, locked))

\* cache.init_cache_manager()
InitCacheManager ==
    \E scan \in Scans(disk) :
        LET cl == init_cache_manager(scan, MAX_CACHE_ENTRIES, disk, locked)
        IN  /\ Apply("init_cache_manager", NoRequest, NoEnv,
                     CacheAnswer("ok", "", NoPath, cl.list, cl.disk, df_cache_path,
                                 cl.evicted, cl.failed))
            /\ UNCHANGED <<MAX_CACHE_ENTRIES, SOURCE_REGISTRY, DEFAULT_SOURCE, locked, clock>>

\* yquoter.init_cache_manager(max_entries)
PackageInit(max_entries, r) ==
    \E scan \in Scans(r.disk) :
        LET cl == package_init_cache_manager(r, scan, locked)
        IN  /\ MAX_CACHE_ENTRIES' = cl.max
            /\ Apply("package_init_cache_manager", [max_entries |-> max_entries], NoEnv,
                     CacheAnswer(IF cl.raised = "" THEN "ok" ELSE cl.raised, "", NoPath, cl.list,
                                 cl.disk, df_cache_path, cl.evicted, cl.failed))
            /\ UNCHANGED <<SOURCE_REGISTRY, DEFAULT_SOURCE, locked, clock>>

PackageInitCacheManager(n) ==
    \E max_entries \in 0..n :
        PackageInit(max_entries, set_max_cache_entries(max_entries, MAX_CACHE_ENTRIES,
                                                       cache_file_list, disk, locked))

\* the process ends and a new one imports the package: the module globals are
\* back at their initial values (cache.py 13-14, config.py 15, datasource.py
\* 15-24), the files stay, and __init__.py line 26 initializes the cache manager
Restart ==
    \E scan \in Scans(disk) :
        LET cl == package_init_cache_manager(
                      set_max_cache_entries(PackageMaxCacheEntries, ModuleMaxCacheEntries,
                                            <<>>, disk, locked),
                      scan, locked)
        IN  /\ MAX_CACHE_ENTRIES' = cl.max
            /\ SOURCE_REGISTRY' = InitialRegistry
            /\ DEFAULT_SOURCE' = SPIDER
            /\ Apply("restart", [max_entries |-> PackageMaxCacheEntries], NoEnv,
                     CacheAnswer("ok", "", NoPath, cl.list, cl.disk, NoPath, cl.evicted, cl.failed))
            /\ UNCHANGED <<locked, clock>>

\* datasource.get_stock_history(...)
Call(req, nreq, wmodes) ==
    \E env \in HistEnvs(req, nreq, wmodes) :
        /\ Apply("get_stock_history", req, env, get_stock_history(req, nreq, env))
        /\ UNCHANGED <<MAX_CACHE_ENTRIES, SOURCE_REGISTRY, DEFAULT_SOURCE, locked, clock>>

GetStockHistory(n, wmodes) == \E req \in HistRequests(n) : Call(req, Normalized[req], wmodes)

\* datasource.register_source(source_name, func_type, func)
RegisterSource(names, types, funcs) ==
    \E source_name \in names, func_type \in types, func \in funcs :
        /\ SOURCE_REGISTRY' = register_source(SOURCE_REGISTRY, source_name, func_type, func)
        /\ Apply("register_source", RegRequest(source_name, func_type, func), NoEnv, Quiet("ok", NoPath))
        /\ UNCHANGED <<MAX_CACHE_ENTRIES, DEFAULT_SOURCE, locked, clock>>

\* datasource.set_default_source(name)
SetDefaultSource(names) ==
    \E name \in names :
        /\ DEFAULT_SOURCE' = set_default_source(name, SOURCE_REGISTRY, DEFAULT_SOURCE).default
        /\ Apply("set_default_source", [name |-> name], NoEnv,
                 Quiet(IF set_default_source(name, SOURCE_REGISTRY, DEFAULT_SOURCE).raised = ""
                       THEN "ok" ELSE set_default_source(name, SOURCE_REGISTRY, DEFAULT_SOURCE).raised,
                       NoPath))
        /\ UNCHANGED <<MAX_CACHE_ENTRIES, SOURCE_REGISTRY, locked, clock>>

\* datasource.get_stock_realtime(...)
GetStockRealtime(reqs, kinds) ==
    \E req \in reqs :
        \E env \in QuoteEnvs(req, kinds) :
            /\ Apply("get_stock_realtime", req, env, get_stock_realtime(req, env))
            /\ UNCHANGED <<MAX_CACHE_ENTRIES, SOURCE_REGISTRY, DEFAULT_SOURCE, locked, clock>>

\* datasource.get_stock_history(...) for the requests of a given set
GetStockHistoryOf(reqs, wmodes) == \E req \in reqs : Call(req, Normalized[req], wmodes)

\* the filesystem clock advances
Tick ==
    /\ Idle
    /\ clock < MaxClock
    /\ clock' = clock + 1
    /\ UNCHANGED <<cache_file_list, MAX_CACHE_ENTRIES, df_cache_path, SOURCE_REGISTRY,
                   DEFAULT_SOURCE, disk, dirs, locked, last>>

\* a cache file becomes undeletable (os.remove raises), or deletable again
EnvLock ==
    \E path \in DOMAIN disk :
        /\ Idle
        /\ path \notin locked
        /\ Cardinality(locked) < MaxLocked
        /\ locked' = locked \cup {path}
        /\ UNCHANGED <<cache_file_list, MAX_CACHE_ENTRIES, df_cache_path, SOURCE_REGISTRY,
                       DEFAULT_SOURCE, disk, dirs, clock, last>>

EnvUnlock ==
    \E path \in locked :
        /\ Idle
        /\ locked' = locked \ {path}
        /\ UNCHANGED <<cache_file_list, MAX_CACHE_ENTRIES, df_cache_path, SOURCE_REGISTRY,
                       DEFAULT_SOURCE, disk, dirs, clock, last>>

\* a cache file is damaged behind the program's back: its bytes are no CSV any
\* more, or it is cut down to its header line
HeaderOnly == to_csv(DF(BasicColumns, 0))

EnvCorrupt ==
    \E path \in DOMAIN disk, data \in {Garbage, HeaderOnly} :
        /\ Idle
        /\ disk[path].data \notin {Garbage, HeaderOnly, ZeroBytes}
        /\ disk' = [disk EXCEPT ![path].data = data]
        /\ UNCHANGED <<cache_file_list, MAX_CACHE_ENTRIES, df_cache_path, SOURCE_REGISTRY,
                       DEFAULT_SOURCE, dirs, locked, clock, last>>

\* the caller takes the answer of the call it made
Return ==
    /\ ~Idle
    /\ last' = IdleLast
    /\ UNCHANGED <<cache_file_list, MAX_CACHE_ENTRIES, df_cache_path, SOURCE_REGISTRY,
                   DEFAULT_SOURCE, disk, dirs, locked, clock>>

\* the successive successful saves to distinct keys, with nothing but clock
\* ticks in between: each key with whether it was untracked when it was saved
\* (history, kept by the specification that follows the saves)
TrackRun ==
    run' = IF clock' # clock \/ last' = IdleLast \/ locked' # locked THEN run
           ELSE IF last'.op # "save_cache" \/ last'.outcome # "ok" \/ last'.failed # {} THEN <<>>
           ELSE IF \E i \in DOMAIN run : run[i][1] = last'.path THEN <<>>
           ELSE Append(run, <<last'.path, \A i \in DOMAIN cache_file_list :
                                             cache_file_list[i][2] # last'.path>>)

----------------------------------------------------------------------------
(* save_cache and get_stock_history step by step, in two threads without a lock:
   a thread can be suspended between any two of the steps below *)

Running(t) == threads[t].pc \notin {"parked", "returned"}
AllParked == \A t \in Threads : threads[t].pc = "parked"
AllReturned ==
    /\ \A t \in Threads : ~Running(t)
    /\ \E t \in Threads : threads[t].pc = "returned"

\* thread t moves on: its locals become th
Go(t, th) == threads' = [threads EXCEPT ![t] = th]

\* save_cache is left, normally or by the exception its except clause wraps;
\* get_stock_history goes on to line 213 when it was left normally
Leave(th, raised) ==
    [th EXCEPT !.raised = raised,
               !.pc = IF raised = "" /\ th.op = "get_stock_history" THEN "saved" ELSE "returned"]

\* what a file holds after a writer that opened it before another writer's
\* bytes arrived has written its own from offset 0: its table, followed by
\* whatever of a longer content is left behind it
overwrite(old, new) ==
    IF old.nrows > new.nrows THEN [header |-> new.header, nrows |-> old.nrows] ELSE new

\* a thread enters save_cache(path, df) with the path get_cache_path gave it,
\* or get_stock_history up to line 166; the first of a group of overlapping
\* calls notes the inventory it starts from (history)
Begin(ops, n, dfs) ==
    \E t \in Threads, op \in ops, path \in CachePaths(n), df \in dfs :
        /\ Idle
        /\ threads[t].pc = "parked"
        /\ \A u \in Threads : threads[u].pc # "returned"
        /\ t = 1 \/ threads[1].pc # "parked"
        /\ Go(t, [Parked EXCEPT !.pc = IF op = "save_cache" THEN "open" ELSE "lookup",
                                !.op = op, !.path = path, !.df = df,
                                !.base = IF AllParked THEN cache_file_list ELSE threads[1].base])
        /\ dirs' = dirs \cup {path.folder}
        /\ UNCHANGED <<cache_file_list, MAX_CACHE_ENTRIES, df_cache_path, SOURCE_REGISTRY,
                       DEFAULT_SOURCE, disk, locked, clock, last>>

\* datasource.py 167-172: the cache lookup; a hit moves the pointer and returns
FetchLookup(t) ==
    /\ threads[t].pc = "lookup"
    /\ IF cache_exists(disk, threads[t].path) /\ load_cache(disk, threads[t].path) # None
       THEN /\ df_cache_path' = threads[t].path
            /\ Go(t, [threads[t] EXCEPT !.pc = "returned"])
       ELSE /\ Go(t, [threads[t] EXCEPT !.pc = "fetch"])
            /\ UNCHANGED df_cache_path
    /\ UNCHANGED <<cache_file_list, MAX_CACHE_ENTRIES, SOURCE_REGISTRY, DEFAULT_SOURCE, disk,
                   dirs, locked, clock, last>>

\* datasource.py 199-209: the provider is called and returns this thread's table
FetchCall(t) ==
    /\ threads[t].pc = "fetch"
    /\ Go(t, [threads[t] EXCEPT !.pc = "open", !.called = TRUE])
    /\ UNCHANGED <<cache_file_list, MAX_CACHE_ENTRIES, df_cache_path, SOURCE_REGISTRY,
                   DEFAULT_SOURCE, disk, dirs, locked, clock, last>>

\* cache.py 186, df.to_csv(path): the file is opened for writing and truncated
ToCsvOpen(t) ==
    /\ threads[t].pc = "open"
    /\ disk' = write_file(disk, threads[t].path, ZeroBytes, clock)
    /\ Go(t, [threads[t] EXCEPT !.pc = "write"])
    /\ UNCHANGED <<cache_file_list, MAX_CACHE_ENTRIES, df_cache_path, SOURCE_REGISTRY,
                   DEFAULT_SOURCE, dirs, locked, clock, last>>

\* cache.py 186, df.to_csv(path): the table is written through the open handle
\* (into a file that has no name any more when an eviction has removed it)
ToCsvWrite(t) ==
    /\ threads[t].pc = "write"
    /\ disk' = IF threads[t].path \in DOMAIN disk
               THEN write_file(disk, threads[t].path,
                               overwrite(disk[threads[t].path].data, to_csv(threads[t].df)), clock)
               ELSE disk
    /\ threads' = [u \in Threads |->
                      IF u = t THEN [threads[t] EXCEPT !.pc = "pointer", !.wrote_last = TRUE]
                      ELSE [threads[u] EXCEPT !.wrote_last = FALSE]]
    /\ UNCHANGED <<cache_file_list, MAX_CACHE_ENTRIES, df_cache_path, SOURCE_REGISTRY,
                   DEFAULT_SOURCE, dirs, locked, clock, last>>

\* cache.py 188: modify_df_path(path)
SavePointer(t) ==
    /\ threads[t].pc = "pointer"
    /\ df_cache_path' = threads[t].path
    /\ Go(t, [threads[t] EXCEPT !.pc = "exists"])
    /\ UNCHANGED <<cache_file_list, MAX_CACHE_ENTRIES, SOURCE_REGISTRY, DEFAULT_SOURCE, disk,
                   dirs, locked, clock, last>>

\* cache.py 51-53: _add_cache_file returns when the file is not there
AddExists(t) ==
    /\ threads[t].pc = "exists"
    /\ Go(t, IF os_path_exists(disk, threads[t].path)
             THEN [threads[t] EXCEPT !.pc = "getmtime"]
             ELSE Leave(threads[t], ""))
    /\ UNCHANGED <<cache_file_list, MAX_CACHE_ENTRIES, df_cache_path, SOURCE_REGISTRY,
                   DEFAULT_SOURCE, disk, dirs, locked, clock, last>>

\* cache.py 55: os.path.getmtime(path), which raises when the file is gone
AddGetmtime(t) ==
    /\ threads[t].pc = "getmtime"
    /\ Go(t, IF os_path_exists(disk, threads[t].path)
             THEN [threads[t] EXCEPT !.pc = "scan", !.i = 1,
                                     !.mtime = os_path_getmtime(disk, threads[t].path)]
             ELSE Leave(threads[t], "CacheSaveError"))
    /\ UNCHANGED <<cache_file_list, MAX_CACHE_ENTRIES, df_cache_path, SOURCE_REGISTRY,
                   DEFAULT_SOURCE, disk, dirs, locked, clock, last>>

\* cache.py 58-59: one iteration of the for loop over the inventory
AddScan(t) ==
    /\ threads[t].pc = "scan"
    /\ Go(t, IF threads[t].i > Len(cache_file_list) THEN [threads[t] EXCEPT !.pc = "append"]
             ELSE IF cache_file_list[threads[t].i][2] = threads[t].path
             THEN [threads[t] EXCEPT !.pc = "assign"]
             ELSE [threads[t] EXCEPT !.i = @ + 1])
    /\ UNCHANGED <<cache_file_list, MAX_CACHE_ENTRIES, df_cache_path, SOURCE_REGISTRY,
                   DEFAULT_SOURCE, disk, dirs, locked, clock, last>>

\* cache.py 60: _cache_file_list[i] = (mtime, path), IndexError when the list
\* has become shorter
AddAssign(t) ==
    /\ threads[t].pc = "assign"
    /\ IF threads[t].i <= Len(cache_file_list)
       THEN /\ cache_file_list' = [cache_file_list EXCEPT ![threads[t].i] =
                                       <<threads[t].mtime, threads[t].path>>]
            /\ Go(t, [threads[t] EXCEPT !.pc = "sort"])
       ELSE /\ Go(t, Leave(threads[t], "CacheSaveError"))
            /\ UNCHANGED cache_file_list
    /\ UNCHANGED <<MAX_CACHE_ENTRIES, df_cache_path, SOURCE_REGISTRY, DEFAULT_SOURCE, disk,
                   dirs, locked, clock, last>>

\* cache.py 62-64: the else of the loop
AddAppend(t) ==
    /\ threads[t].pc = "append"
    /\ cache_file_list' = Append(cache_file_list, <<threads[t].mtime, threads[t].path>>)
    /\ Go(t, [threads[t] EXCEPT !.pc = "sort"])
    /\ UNCHANGED <<MAX_CACHE_ENTRIES, df_cache_path, SOURCE_REGISTRY, DEFAULT_SOURCE, disk,
                   dirs, locked, clock, last>>

\* cache.py 67: the sort
AddSort(t) ==
    /\ threads[t].pc = "sort"
    /\ cache_file_list' = sort_by_mtime(cache_file_list)
    /\ Go(t, [threads[t] EXCEPT !.pc = "check"])
    /\ UNCHANGED <<MAX_CACHE_ENTRIES, df_cache_path, SOURCE_REGISTRY, DEFAULT_SOURCE, disk,
                   dirs, locked, clock, last>>

\* cache.py 80-81: nothing to evict
CleanupCheck(t) ==
    /\ threads[t].pc = "check"
    /\ Go(t, IF Len(cache_file_list) <= MAX_CACHE_ENTRIES THEN Leave(threads[t], "")
             ELSE [threads[t] EXCEPT !.pc = "count"])
    /\ UNCHANGED <<cache_file_list, MAX_CACHE_ENTRIES, df_cache_path, SOURCE_REGISTRY,
                   DEFAULT_SOURCE, disk, dirs, locked, clock, last>>

\* cache.py 83: files_to_delete, from the length the list has now
CleanupCount(t) ==
    /\ threads[t].pc = "count"
    /\ Go(t, [threads[t] EXCEPT !.pc = "guard",
                                !.k = files_to_delete(cache_file_list, MAX_CACHE_ENTRIES)])
    /\ UNCHANGED <<cache_file_list, MAX_CACHE_ENTRIES, df_cache_path, SOURCE_REGISTRY,
                   DEFAULT_SOURCE, disk, dirs, locked, clock, last>>

\* cache.py 87-89: the loop goes on while the range lasts and the list is not empty
CleanupGuard(t) ==
    /\ threads[t].pc = "guard"
    /\ Go(t, IF threads[t].k <= 0 \/ cache_file_list = <<>> THEN Leave(threads[t], "")
             ELSE [threads[t] EXCEPT !.pc = "pop"])
    /\ UNCHANGED <<cache_file_list, MAX_CACHE_ENTRIES, df_cache_path, SOURCE_REGISTRY,
                   DEFAULT_SOURCE, disk, dirs, locked, clock, last>>

\* cache.py 91: pop(0), IndexError when the list has become empty
CleanupPop(t) ==
    /\ threads[t].pc = "pop"
    /\ IF cache_file_list = <<>>
       THEN /\ Go(t, Leave(threads[t], "CacheSaveError"))
            /\ UNCHANGED cache_file_list
       ELSE /\ cache_file_list' = Tail(cache_file_list)
            /\ Go(t, [threads[t] EXCEPT !.pc = "remove", !.oldest_path = Head(cache_file_list)[2]])
    /\ UNCHANGED <<MAX_CACHE_ENTRIES, df_cache_path, SOURCE_REGISTRY, DEFAULT_SOURCE, disk,
                   dirs, locked, clock, last>>

\* cache.py 92-98: the file is removed when it is there; a failure is logged
CleanupRemove(t) ==
    /\ threads[t].pc = "remove"
    /\ IF os_path_exists(disk, threads[t].oldest_path) /\ threads[t].oldest_path \notin locked
       THEN /\ disk' = os_remove(disk, threads[t].oldest_path)
            /\ Go(t, [threads[t] EXCEPT !.pc = "guard", !.k = @ - 1,
                                        !.removed = @ \cup {threads[t].oldest_path}])
       ELSE /\ Go(t, [threads[t] EXCEPT !.pc = "guard", !.k = @ - 1])
            /\ UNCHANGED disk
    /\ UNCHANGED <<cache_file_list, MAX_CACHE_ENTRIES, df_cache_path, SOURCE_REGISTRY,
                   DEFAULT_SOURCE, dirs, locked, clock, last>>

\* datasource.py 213: modify_df_path(cache_path) after the save, then the return
FetchSaved(t) ==
    /\ threads[t].pc = "saved"
    /\ df_cache_path' = threads[t].path
    /\ Go(t, [threads[t] EXCEPT !.pc = "returned"])
    /\ UNCHANGED <<cache_file_list, MAX_CACHE_ENTRIES, SOURCE_REGISTRY, DEFAULT_SOURCE, disk,
                   dirs, locked, clock, last>>

\* the callers have their answers
Join ==
    /\ AllReturned
    /\ threads' = [t \in Threads |-> Parked]
    /\ UNCHANGED <<cache_file_list, MAX_CACHE_ENTRIES, df_cache_path, SOURCE_REGISTRY,
                   DEFAULT_SOURCE, disk, dirs, locked, clock, last>>

\* the tables the two providers' answers are drawn from
RaceTables == {TableFull, DF(FullColumns, 2)}

\* calls that overlap in two threads, resizes in between
NextRace ==
    \/ Begin({"save_cache", "get_stock_history"}, MaxRaceCodes, RaceTables) /\ UNCHANGED run
    \/ \E t \in Threads :
          \/ FetchLookup(t) /\ UNCHANGED run
          \/ FetchCall(t) /\ UNCHANGED run
          \/ ToCsvOpen(t) /\ UNCHANGED run
          \/ ToCsvWrite(t) /\ UNCHANGED run
          \/ SavePointer(t) /\ UNCHANGED run
          \/ AddExists(t) /\ UNCHANGED run
          \/ AddGetmtime(t) /\ UNCHANGED run
          \/ AddScan(t) /\ UNCHANGED run
          \/ AddAssign(t) /\ UNCHANGED run
          \/ AddAppend(t) /\ UNCHANGED run
          \/ AddSort(t) /\ UNCHANGED run
          \/ CleanupCheck(t) /\ UNCHANGED run
          \/ CleanupCount(t) /\ UNCHANGED run
          \/ CleanupGuard(t) /\ UNCHANGED run
          \/ CleanupPop(t) /\ UNCHANGED run
          \/ CleanupRemove(t) /\ UNCHANGED run
          \/ FetchSaved(t) /\ UNCHANGED run
    \/ Join /\ UNCHANGED run
    \/ AllParked /\ SetMaxCacheEntries(MaxHistEntriesArg) /\ UNCHANGED <<run, threads>>
    \/ AllParked /\ Return /\ UNCHANGED <<run, threads>>

SpecRace == Init /\ [][NextRace]_vars

\* the eviction inventory under saves, resizes and rescans
NextCache ==
    \/ SaveCache(MaxCodes, {TableFull}, {"none", "open"}) /\ UNCHANGED <<run, threads>>
    \/ SetMaxCacheEntries(MaxEntriesArg) /\ UNCHANGED <<run, threads>>
    \/ InitCacheManager /\ UNCHANGED <<run, threads>>
    \/ Tick /\ UNCHANGED <<run, threads>>
    \/ EnvLock /\ UNCHANGED <<run, threads>>
    \/ EnvUnlock /\ UNCHANGED <<run, threads>>
    \/ Return /\ UNCHANGED <<run, threads>>

SpecCache == Init /\ [][NextCache]_vars

\* runs of saves between resizes
NextEvict ==
    \/ SaveCache(MaxCodes, {TableFull}, {"none", "open"}) /\ TrackRun /\ UNCHANGED threads
    \/ SetMaxCacheEntries(MaxEntriesArg) /\ TrackRun /\ UNCHANGED threads
    \/ Tick /\ TrackRun /\ UNCHANGED threads
    \/ EnvLock /\ TrackRun /\ UNCHANGED threads
    \/ EnvUnlock /\ TrackRun /\ UNCHANGED threads
    \/ Return /\ TrackRun /\ UNCHANGED threads

SpecEvict == Init /\ [][NextEvict]_vars

\* the cache across process restarts
NextRestart ==
    \/ SaveCache(MaxRestartCodes, {TableFull}, {"none", "open"}) /\ UNCHANGED <<run, threads>>
    \/ Restart /\ UNCHANGED <<run, threads>>
    \/ PackageInitCacheManager(MaxEntriesArg) /\ UNCHANGED <<run, threads>>
    \/ InitCacheManager /\ UNCHANGED <<run, threads>>
    \/ Tick /\ UNCHANGED <<run, threads>>
    \/ EnvLock /\ UNCHANGED <<run, threads>>
    \/ EnvUnlock /\ UNCHANGED <<run, threads>>
    \/ Return /\ UNCHANGED <<run, threads>>

SpecRestart == Init /\ [][NextRestart]_vars

\* the history fetch over the cache
Next ==
    \/ GetStockHistory(MaxHistCodes, WriteModes) /\ UNCHANGED <<run, threads>>
    \/ SetMaxCacheEntries(MaxHistEntriesArg) /\ UNCHANGED <<run, threads>>
    \/ EnvCorrupt /\ UNCHANGED <<run, threads>>
    \/ Return /\ UNCHANGED <<run, threads>>

Spec == Init /\ [][Next]_vars

\* one query spelled in lower and in upper case
NextCase ==
    \/ GetStockHistoryOf(CaseRequests, {"none"}) /\ UNCHANGED <<run, threads>>
    \/ EnvCorrupt /\ UNCHANGED <<run, threads>>
    \/ Return /\ UNCHANGED <<run, threads>>

SpecCase == Init /\ [][NextCase]_vars

\* the registry, the default source and the fetches that resolve through them
SourceRequests ==
    {PlainRequest(CodeTable[1], "basic"),
     [PlainRequest(CodeTable[1], "basic") EXCEPT !.source = Nonexistent],
     [PlainRequest(CodeTable[1], "basic") EXCEPT !.source = TUSHARE]}

NextSources ==
    \/ RegisterSource(SourceNames, Capabilities, Providers) /\ UNCHANGED <<run, threads>>
    \/ SetDefaultSource(DefaultNames) /\ UNCHANGED <<run, threads>>
    \/ GetStockHistoryOf(SourceRequests, {"none"}) /\ UNCHANGED <<run, threads>>
    \/ GetStockRealtime(QuoteRequests(MaxQuoteCodes, {NoStr, TuShareMixed, Nonexistent}), QuoteKinds)
           /\ UNCHANGED <<run, threads>>
    \/ Return /\ UNCHANGED <<run, threads>>

SpecSources == Init /\ [][NextSources]_vars

\* every operation that could touch the newest-path pointer
PointerRequests ==
    {PlainRequest(CodeTable[1], "basic"), [PlainRequest(CodeTable[1], "basic") EXCEPT !.freq = FreqWeek]}

NextPointer ==
    \/ SaveCache(MaxPointerCodes, {TableFull}, {"none", "open"}) /\ UNCHANGED <<run, threads>>
    \/ GetStockHistoryOf(PointerRequests, {"none", "write"}) /\ UNCHANGED <<run, threads>>
    \/ SetMaxCacheEntries(MaxHistEntriesArg) /\ UNCHANGED <<run, threads>>
    \/ RegisterSource({TuShareMixed}, {REALTIME}, {"provider_a"}) /\ UNCHANGED <<run, threads>>
    \/ SetDefaultSource({TuShareMixed}) /\ UNCHANGED <<run, threads>>
    \/ GetStockRealtime(QuoteRequests(1, {NoStr}), {"raise", "table"}) /\ UNCHANGED <<run, threads>>
    \/ Return /\ UNCHANGED <<run, threads>>

SpecPointer == Init /\ [][NextPointer]_vars

----------------------------------------------------------------------------
(* The eviction inventory: C1, C2, C3 *)

Entries(list) == {list[i] : i \in DOMAIN list}
Paths(list) == {list[i][2] : i \in DOMAIN list}

\* C1: after every completed save_cache, set_max_cache_entries(n >= 1) or
\* init_cache_manager call, in any sequence, the inventory tracks at most
\* MAX_CACHE_ENTRIES entries (and it does so between the calls as well).
C1_InventoryWithinMaximum == Len(cache_file_list) <= MAX_CACHE_ENTRIES

\* a save has just evicted an entry to bring the inventory down to the maximum
C1_SaveEvictedDownToMaximum ==
    /\ last.op = "save_cache"
    /\ last.outcome = "ok"
    /\ last.evicted >= 1
    /\ Len(cache_file_list) = MAX_CACHE_ENTRIES

\* the entries a step drops from the inventory, and how many it has to drop
Dropped == {e \in Entries(cache_file_list) : e[2] \notin Paths(cache_file_list')}
Tracked == Paths(cache_file_list) \cup (IF last'.op = "save_cache" THEN {last'.path} ELSE {})
Excess == Cardinality(Tracked) - MAX_CACHE_ENTRIES'

EvictsOldestFirst ==
    (last'.op \in {"save_cache", "set_max_cache_entries"} /\ last'.outcome = "ok") =>
        /\ Cardinality(Dropped) = (IF Excess > 0 THEN Excess ELSE 0)
        /\ \A e \in Dropped : \A r \in Entries(cache_file_list') : e[1] <= r[1]
        /\ \A e \in Dropped : e[2] \notin last'.failed => e[2] \notin DOMAIN disk'
        /\ last'.op = "save_cache" => last'.path \in Paths(cache_file_list')

\* the first save's file is gone, the files of the other saves are there
FirstOfRunDeleted ==
    /\ run[1][1] \notin DOMAIN disk
    /\ \A i \in 2..Len(run) : run[i][1] \in DOMAIN disk

FreshKeys == \A i \in DOMAIN run : run[i][2]

Deletable == {p \in Paths(cache_file_list) \ {last.path} : p \in DOMAIN disk /\ p \notin locked}

\* C3: after every successful save_cache the cache files on disk number at most
\* MAX_CACHE_ENTRIES, whenever enough deletable entries exist: a failed
\* deletion is skipped and the eviction goes on to the next-oldest entry.
C3_FilesOnDiskWithinMaximum ==
    (/\ last.op = "save_cache"
     /\ last.outcome = "ok"
     /\ Cardinality(Deletable) >= Cardinality(DOMAIN disk) - MAX_CACHE_ENTRIES)
        => Cardinality(DOMAIN disk) <= MAX_CACHE_ENTRIES

----------------------------------------------------------------------------
(* The history fetch: C4 .. C10 *)

Hist(l) == l.op = "get_stock_history"
Required(l) == IF l.req.fields = "full" THEN FullColumns ELSE BasicColumns
Wrote(df) == [header |-> df.cols, nrows |-> df.rows]
FetchedTable(l) == Hist(l) /\ l.called /\ l.got.raises = "" /\ l.got.df # None
FetchedRows(l) == FetchedTable(l) /\ l.got.df.rows >= 1 /\ l.got.df.cols # <<>>

\* C4: a call that invoked the provider and obtained a non-empty table leaves
\* that table in the cache file of its key (unless the write failed); and a
\* call that finds a table in the cache file of its key (any later call with
\* the same parameters, while the file is still there) does not invoke the
\* provider, leaves the file as it is and points df_cache_path at it: the
\* provider is called once across the two calls.
C4_SecondCallServedFromCache ==
    /\ (FetchedRows(last) /\ last.env.wfail = "none") =>
           /\ last.path \in DOMAIN disk
           /\ disk[last.path].data = Wrote(last.got.df)
    /\ (Hist(last) /\ last.found = "table") =>
           /\ ~last.called
           /\ last.got = NoCall
           /\ last.path \in DOMAIN disk
           /\ disk[last.path].data.nrows >= 1
           /\ df_cache_path = last.path

\* a call has just been answered from the cache file an earlier call wrote
C4_ServedFromCache ==
    /\ Hist(last)
    /\ last.found = "table"
    /\ ~last.called
    /\ last.outcome = "ok"
    /\ last.ret.rows >= 1

\* the table the answer was made from: the fetched one, or the cached one
SourceCols(l) == IF l.called THEN l.got.df.cols ELSE disk[l.path].data.header
SourceRows(l) == IF l.called THEN l.got.df.rows ELSE disk[l.path].data.nrows
Lacking(l) == SelectSeq(Required(l), LAMBDA c : \A j \in DOMAIN SourceCols(l) : SourceCols(l)[j] # c)

\* C5: whether it comes from a cache hit or from a live fetch, a table that
\* get_stock_history returns has exactly the required columns of the requested
\* field set, in canonical order (extra columns dropped, rows kept); if a
\* required column is missing the call raises DataFormatError naming it and
\* returns no table.
C5_ReturnsRequiredColumns ==
    (/\ Hist(last)
     /\ last.found = "table" \/ FetchedTable(last)
     /\ last.outcome # "CacheSaveError") =>
        IF Lacking(last) = <<>>
        THEN /\ last.outcome = "ok"
             /\ last.ret = DF(Required(last), SourceRows(last))
        ELSE /\ last.outcome = "DataFormatError"
             /\ last.missing = Lacking(last)
             /\ last.ret = None

\* a cache hit on a file with an extra column and another column order
C5_HitDropsExtraColumn ==
    /\ Hist(last)
    /\ last.found = "table"
    /\ last.outcome = "ok"
    /\ disk[last.path].data.header = TableExtra.cols
    /\ last.ret.cols = BasicColumns

\* C6: when the provider returns a non-empty table that lacks a required
\* column, get_stock_history raises DataFormatError naming the column, and no
\* cache file is written for that call.
C6_MalformedTableNotCached ==
    (FetchedRows(last) /\ Lacking(last) # <<>> /\ last.env.wfail = "none") =>
        /\ last.outcome = "DataFormatError"
        /\ last.missing = Lacking(last)
        /\ last.path \in DOMAIN disk => disk[last.path].data # Wrote(last.got.df)

Unregistered(l) == l.req.source # NoStr /\ str_lower(l.req.source) \notin DOMAIN SOURCE_REGISTRY

\* C7: get_stock_history with parseable dates and a source name that is not in
\* the registry raises DataSourceError without calling a provider, without
\* computing a cache path, and leaves the cache directories, the cache files,
\* the inventory and the newest-path pointer as they were.
C7_UnknownSourceTouchesNothing ==
    [][(/\ Hist(last')
        /\ Unregistered(last')
        /\ Normalized[last'.req].dates_ok) =>
            /\ last'.outcome = "DataSourceError"
            /\ ~last'.called
            /\ last'.path = NoPath
            /\ UNCHANGED <<disk, dirs, cache_file_list, df_cache_path>>]_vars

\* the unknown source was refused before the key's directory existed
C7_RefusedBeforeDirectory ==
    /\ Hist(last)
    /\ last.req.source = Nonexistent
    /\ last.outcome = "DataSourceError"
    /\ dirs = {}

\* C8: an exception raised by the provider reaches the caller as DataFetchError
\* with the exception as its cause; no cache file is written, and the
\* inventory and the newest-path pointer are as before the call.
C8_ProviderErrorWrapped ==
    [][(Hist(last') /\ last'.called /\ last'.env.prov.raises # "") =>
            /\ last'.outcome = "DataFetchError"
            /\ last'.cause = last'.env.prov.raises
            /\ last'.ret = None
            /\ UNCHANGED <<disk, cache_file_list, df_cache_path>>]_vars

\* the provider raised: the key's directory is there, its file is not
C8_FetchFailed ==
    /\ Hist(last)
    /\ last.outcome = "DataFetchError"
    /\ last.cause = "ConnectionError"
    /\ last.path.folder \in dirs
    /\ last.path \notin DOMAIN disk

OneFile(path, data) == path :> [data |-> data, mtime |-> 0]

\* C9: load_cache raises nothing: it gives None for a missing, empty or
\* unreadable file; get_stock_history then calls the provider and, when the
\* provider returns a non-empty table and the write succeeds, the cache file
\* of the key holds the fresh table.
C9_UnusableCacheIsAMiss ==
    /\ \A path \in CachePaths(MaxHistCodes) :
           /\ load_cache(<<>>, path) = None
           /\ \A data \in {ZeroBytes, Garbage, HeaderOnly} : load_cache(OneFile(path, data), path) = None
    /\ (Hist(last) /\ last.found \in {"absent", "unusable"} /\ last.outcome # "DataSourceError") =>
           /\ last.called
           /\ (FetchedRows(last) /\ last.env.wfail = "none") =>
                  /\ last.path \in DOMAIN disk
                  /\ disk[last.path].data = Wrote(last.got.df)

\* a damaged cache file has just been replaced by a fresh fetch
C9_DamagedFileReplaced ==
    /\ Hist(last)
    /\ last.found = "unusable"
    /\ last.called
    /\ last.outcome = "ok"
    /\ disk[last.path].data = Wrote(TableFull)

\* C10: when writing the cache file fails, save_cache raises CacheSaveError
\* with the underlying error as cause, get_stock_history lets it through
\* instead of returning the fetched table, and the inventory and the
\* newest-path pointer are as before the call.
C10_WriteFailurePropagates ==
    [][(FetchedRows(last') /\ last'.env.wfail # "none") =>
            /\ last'.outcome = "CacheSaveError"
            /\ last'.cause = "OSError"
            /\ last'.ret = None
            /\ UNCHANGED <<cache_file_list, df_cache_path>>]_vars

\* a write failed after an earlier key had been cached
C10_WriteFailed ==
    /\ Hist(last)
    /\ last.outcome = "CacheSaveError"
    /\ last.env.wfail = "write"
    /\ cache_file_list # <<>>
    /\ df_cache_path # last.path

----------------------------------------------------------------------------
(* The newest-path pointer and the resize: C11, C12, C13 *)

\* the call wrote its cache file: save_cache itself, or the save of a live fetch
Saved(l) ==
    \/ l.op = "save_cache" /\ l.outcome = "ok"
    \/ FetchedRows(l) /\ l.outcome # "CacheSaveError"

\* the call was answered from the cache file of its key
ServedFromFile(l) == Hist(l) /\ l.found = "table"

\* C11: df_cache_path is empty at process start; a successful save_cache and
\* a get_stock_history cache hit set it to the path of their key, and no
\* other operation (failed fetch, failed save, realtime fetch,
\* set_max_cache_entries, registry calls) changes it: it always equals the
\* path of the most recent successful save or cache hit.
C11_PointerFollowsSavesAndHits ==
    /\ df_cache_path = NoPath
    /\ [][df_cache_path' = IF Saved(last') \/ ServedFromFile(last')
                           THEN last'.path ELSE df_cache_path]_vars

\* a cache hit has just pointed df_cache_path at a key other than the one saved last
C11_HitMovedPointer ==
    /\ ServedFromFile(last)
    /\ df_cache_path = last.path
    /\ cache_file_list # <<>>
    /\ cache_file_list[Len(cache_file_list)][2] # last.path

\* C11 as stated: nothing but a successful save changes df_cache_path.
C11_OnlySavesMovePointer == [][df_cache_path' # df_cache_path => Saved(last')]_vars

ResizeOf(l) == l.op = "set_max_cache_entries"

\* C12: set_max_cache_entries(n) with n < 1 raises ValueError and leaves
\* MAX_CACHE_ENTRIES, the inventory and the files on disk as they were.
C12_InvalidMaximumRefused ==
    [][(ResizeOf(last') /\ last'.req.max_entries < 1) =>
            /\ last'.outcome = "ValueError"
            /\ UNCHANGED <<MAX_CACHE_ENTRIES, cache_file_list, disk>>]_vars

\* a resize to 0 was refused while entries were tracked
C12_ZeroRefused ==
    /\ ResizeOf(last)
    /\ last.req.max_entries = 0
    /\ last.outcome = "ValueError"
    /\ Len(cache_file_list) >= 2

Newest(list, k) == SubSeq(list, Len(list) - k + 1, Len(list))
Min(a, b) == IF a < b THEN a ELSE b

----------------------------------------------------------------------------
(* The source registry and the default source: C14, C15 *)

RegisterOf(l) == l.op = "register_source"
Quotes(l) == l.op = "get_stock_realtime"

\* the (name, capability) pairs a registry has a function for
Pairs(registry) == UNION {{<<n, t>> : t \in DOMAIN registry[n]} : n \in DOMAIN registry}
Resolved(registry, pair) == registry[pair[1]][pair[2]]
Registered(l) == <<str_lower(l.req.source_name), str_lower(l.req.func_type)>>

\* C14: register_source files the function under the lowered name and
\* capability: afterwards that pair resolves to the function just registered
\* (whatever the letter-casing it or an earlier registration was spelled in),
\* every other pair resolves to what it did before and none is removed,
\* registering again what the pair already resolves to changes nothing, no
\* other operation changes the registry, and the provider a realtime fetch
\* invokes is the one the registry resolves.
C14_RegisterIsUpsert ==
    /\ [][RegisterOf(last') =>
              /\ last'.outcome = "ok"
              /\ Pairs(SOURCE_REGISTRY') = Pairs(SOURCE_REGISTRY) \cup {Registered(last')}
              /\ Resolved(SOURCE_REGISTRY', Registered(last')) = last'.req.func
              /\ \A p \in Pairs(SOURCE_REGISTRY) \ {Registered(last')} :
                     Resolved(SOURCE_REGISTRY', p) = Resolved(SOURCE_REGISTRY, p)
              /\ (/\ Registered(last') \in Pairs(SOURCE_REGISTRY)
                  /\ Resolved(SOURCE_REGISTRY, Registered(last')) = last'.req.func)
                     => UNCHANGED SOURCE_REGISTRY]_vars
    /\ [][~RegisterOf(last') => UNCHANGED SOURCE_REGISTRY]_vars
    /\ [](Quotes(last) =>
              \A i \in DOMAIN last.got :
                  last.got[i].func =
                      Resolved(SOURCE_REGISTRY,
                               <<resolve_source(last.req.source, DEFAULT_SOURCE), REALTIME>>))

\* "TuShare"/"History" has just been registered over an earlier registration of
\* the pair, next to a realtime function registered as "tushare"
C14_MixedCaseOverwrote ==
    /\ RegisterOf(last)
    /\ last.req.source_name = TuShareMixed
    /\ last.req.func_type = HistoryMixed
    /\ last.req.func = "provider_b"
    /\ {<<TUSHARE, HISTORY>>, <<TUSHARE, REALTIME>>} \subseteq Pairs(SOURCE_REGISTRY)
    /\ Resolved(SOURCE_REGISTRY, <<TUSHARE, HISTORY>>) = "provider_b"
    /\ Resolved(SOURCE_REGISTRY, <<TUSHARE, REALTIME>>) = "provider_a"
    /\ DEFAULT_SOURCE = TUSHARE

DefaultOf(l) == l.op = "set_default_source"

\* C15: set_default_source(name) raises DataSourceError when the lowered name
\* is not registered and leaves the default as it was, else the lowered name
\* becomes the default; so the default is always a registered name, and a
\* get_stock_history call without a source is never refused as an unknown
\* source (DataSourceError comes to it only from a default source that has
\* no history function, after the cache lookup).
C15_DefaultAlwaysRegistered ==
    /\ [][DefaultOf(last') =>
              IF str_lower(last'.req.name) \in DOMAIN SOURCE_REGISTRY
              THEN last'.outcome = "ok" /\ DEFAULT_SOURCE' = str_lower(last'.req.name)
              ELSE last'.outcome = "DataSourceError" /\ UNCHANGED DEFAULT_SOURCE]_vars
    /\ [][~DefaultOf(last') => UNCHANGED DEFAULT_SOURCE]_vars
    /\ [](DEFAULT_SOURCE \in DOMAIN SOURCE_REGISTRY)
    /\ []((Hist(last) /\ last.req.source = NoStr /\ last.outcome = "DataSourceError") =>
              /\ last.path # NoPath
              /\ HISTORY \notin DOMAIN SOURCE_REGISTRY[DEFAULT_SOURCE])

\* an unregistered name was refused while the default was a registered provider
C15_UnknownDefaultRefused ==
    /\ DefaultOf(last)
    /\ last.req.name = Nonexistent
    /\ last.outcome = "DataSourceError"
    /\ DEFAULT_SOURCE = TUSHARE

----------------------------------------------------------------------------
(* The cache key: C16, C17, C18 *)

PlainPath == Normalized[PlainRequest(CodeTable[1], "basic")].path
WeekPath == Normalized[[PlainRequest(CodeTable[1], "basic") EXCEPT !.freq = FreqWeek]].path
PlainPathStr == <<".","c","a","c","h","e","/","c","n","/","6","0","0","5","1","9","/","2","0","2","4","1","0","0","2","_","2","0","2","4","1","0","1","2","_","k","l","t","1","0","1","_","f","q","t","1",".","c","s","v">>
WeekPathStr == <<".","c","a","c","h","e","/","c","n","/","6","0","0","5","1","9","/","2","0","2","4","1","0","0","2","_","2","0","2","4","1","0","1","2","_","k","l","t","2","_","f","q","t","1",".","c","s","v">>

\* 2 October 2024 as a caller may spell it
DateSpellings ==
    {StartDash, StartPlain, <<"2","0","2","4","/","1","0","/","0","2">>, <<" ","2","0","2","4","-","1","0","-","0","2"," ">>,
     <<"2","0","2","4","-","1","0","-","2">>, <<"2","0","2","4","-","1","0","-","0","2"," ","0","9",":","3","0",":","0","0">>}

\* the plain request with its market or its start date spelled another way
Respelled ==
    {[PlainRequest(CodeTable[1], "basic") EXCEPT !.market = MarketCnUp]}
        \cup {[PlainRequest(CodeTable[1], "basic") EXCEPT !.start = d] : d \in DateSpellings}

RespellingsAgree ==
    /\ \A d \in DateSpellings : parse_date_str(d) = [ok |-> TRUE, out |-> StartPlain]
    /\ \A r \in Respelled :
           /\ normalize_request(r).path = PlainPath
           /\ path_str(normalize_request(r).path) = PlainPathStr

\* C16: the cache path is a function of the query alone, and spelling does
\* not count: every spelling of the same start date and either letter case of
\* the market give the path of the plain query, whatever the state the call
\* is made in, so that a respelled query is served from the file the plain
\* one wrote.
C16_SpellingsShareCachePath ==
    /\ RespellingsAgree
    /\ (Hist(last) /\ last.path # NoPath) => last.path = Normalized[last.req].path
    /\ (Hist(last) /\ last.req \in Respelled /\ last.path # NoPath) =>
           /\ last.path = PlainPath
           /\ path_str(last.path) = PlainPathStr
           /\ last.found = "table" => ~last.called

\* a query with its start spelled 20241002 has been served from the cache
C16_RespelledServedFromCache ==
    /\ Hist(last)
    /\ last.req.start = StartPlain
    /\ last.found = "table"
    /\ ~last.called
    /\ last.path = PlainPath

\* normalized queries: lowered markets, codes, YYYYMMDD dates, resolutions, adjustments
KeyGrid ==
    {MarketCn, <<"h","k">>} \X Codes(2) \X {StartPlain, <<"2","0","2","4","1","0","1","2">>} \X {StartPlain, <<"2","0","2","4","1","0","1","2">>}
        \X {1, 11, 101} \X {0, 1, 11}
KeyPath(q) == cache_path(q[1], q[2], q[3], q[4], q[5], q[6])

InjectiveOnGrid ==
    \A q1, q2 \in KeyGrid :
        (KeyPath(q1) = KeyPath(q2) \/ path_str(KeyPath(q1)) = path_str(KeyPath(q2))) => q1 = q2

\* the normalized fields of a request
KeyOf ==
    [r \in AllRequests |->
        <<str_lower(r.market), r.code, parse_date_str(r.start).out, parse_date_str(r.end).out,
          Normalized[r].klt, r.fqt>>]

\* C17: over normalized inputs get_cache_path is injective in (market, code,
\* start, end, klt, fqt), as a path and as the string the filesystem gets; a
\* call's cache file is the file of no request that differs from it in one of
\* these fields after normalization.
C17_DistinctQueriesDistinctPaths ==
    /\ InjectiveOnGrid
    /\ (Hist(last) /\ last.path # NoPath) =>
           \A r \in AllRequests :
               (Normalized[r].path = last.path \/ path_str(Normalized[r].path) = path_str(last.path))
                   => KeyOf[r] = KeyOf[last.req]

\* the weekly query has just been fetched into its own file, next to the plain one's
C17_TwoResolutionsTwoFiles ==
    /\ Hist(last)
    /\ last.req.freq = FreqWeek
    /\ last.called
    /\ last.path # PlainPath
    /\ {PlainPath, last.path} \subseteq DOMAIN disk

FreqGiven(l) ==
    /\ Hist(l)
    /\ l.req.freq # NoStr
    /\ Normalized[l.req].dates_ok
    /\ l.outcome # "DataSourceError"

\* C18: with a freq, the cache key and the provider call use the resolution
\* FREQ_TO_KLT gives for the lowered freq, not the klt argument; a freq that
\* is not in the table raises ParameterError with no cache path computed, no
\* directory created, no cache lookup and no provider call.
C18_FreqOverridesKlt ==
    [][FreqGiven(last') =>
           IF str_lower(last'.req.freq) \in DOMAIN FREQ_TO_KLT
           THEN /\ last'.outcome # "ParameterError"
                /\ last'.path # NoPath =>
                       /\ last'.path = WeekPath
                       /\ path_str(last'.path) = WeekPathStr
                /\ last'.called => last'.got.klt = FREQ_TO_KLT[str_lower(last'.req.freq)]
           ELSE /\ last'.outcome = "ParameterError"
                /\ ~last'.called
                /\ last'.path = NoPath
                /\ last'.found = "-"
                /\ UNCHANGED <<disk, dirs, cache_file_list, df_cache_path>>]_vars

\* freq "Week" with klt 101: the provider was called for weekly bars
C18_WeekOverrodeKlt ==
    /\ Hist(last)
    /\ last.req.freq = FreqWeek
    /\ last.req.klt = DefaultKlt
    /\ last.called
    /\ last.got.klt = FREQ_TO_KLT[<<"w","e","e","k">>]
    /\ last.path \in DOMAIN disk

----------------------------------------------------------------------------
(* The realtime fetch: C19, C20 *)

\* the call got as far as the provider: its source is registered for realtime
Fetching(l) ==
    /\ Quotes(l)
    /\ <<resolve_source(l.req.source, DEFAULT_SOURCE), REALTIME>> \in Pairs(SOURCE_REGISTRY)
Iterated(l) == Fetching(l) /\ resolve_source(l.req.source, DEFAULT_SOURCE) = TUSHARE
Batched(l) == Fetching(l) /\ resolve_source(l.req.source, DEFAULT_SOURCE) # TUSHARE

Asked(l) == IF l.req.codes.is_str THEN <<l.req.codes.value>> ELSE l.req.codes.value
Succeeded(result) == result.raises = "" /\ result.df # None /\ result.df.rows # <<>>

\* the codes whose invocation came back with rows, in the order they were asked for
Served(l) ==
    SelectSeq(Asked(l), LAMBDA c : \E i \in DOMAIN Asked(l) : Asked(l)[i] = c /\ Succeeded(l.env.results[i]))

\* C19: in the one-code-at-a-time path the provider is invoked once for every
\* code, in request order, whatever the earlier invocations did; a code whose
\* invocation raised or came back empty is skipped and get_stock_realtime
\* does not raise DataFetchError; when a code succeeded the call returns the
\* rows of the codes that succeeded, in request order (when none did, what
\* is returned is what validation makes of an empty frame).
C19_FailedCodeSkipped ==
    Iterated(last) =>
        /\ Len(last.got) = Len(Asked(last))
        /\ \A i \in DOMAIN Asked(last) :
               /\ last.got[i].arg = Asked(last)[i]
               /\ last.got[i].raises = last.env.results[i].raises
        /\ last.outcome # "DataFetchError"
        /\ IF Served(last) # <<>>
           THEN last.outcome = "ok" /\ last.ret.rows = Served(last)
           ELSE /\ last.outcome \in {"ok", "DataFormatError"}
                /\ last.outcome = "ok" => last.ret.rows = <<>>

\* two codes, the first one's invocation raised: the second one's row is returned
C19_SecondCodeReturned ==
    /\ Iterated(last)
    /\ Len(Asked(last)) = 2
    /\ last.env.results[1].raises = "ConnectionError"
    /\ last.outcome = "ok"
    /\ last.ret.rows = <<Asked(last)[2]>>

\* C20: in the batch path the provider is invoked exactly once, with the full
\* list of codes; an exception from that invocation reaches the caller as
\* DataFetchError with the exception as its cause, and no table is returned.
C20_BatchFailureRaised ==
    Batched(last) =>
        /\ Len(last.got) = 1
        /\ last.got[1].arg = Asked(last)
        /\ last.env.results[1].raises # "" =>
               /\ last.outcome = "DataFetchError"
               /\ last.cause = last.env.results[1].raises
               /\ last.ret = None

\* a batch of two codes failed as a whole
C20_BatchOfTwoFailed ==
    /\ Batched(last)
    /\ Len(Asked(last)) = 2
    /\ last.outcome = "DataFetchError"
    /\ last.cause = "ConnectionError"

----------------------------------------------------------------------------
(* The cache across process restarts: C21 *)

Rebuilt(l) ==
    l.op \in {"restart", "package_init_cache_manager", "init_cache_manager"} /\ l.outcome = "ok"

\* the cache files no inventory entry names
Orphans(list, dsk) == DOMAIN dsk \ Paths(list)

OldestFirst(list) == \A i, j \in DOMAIN list : i < j => list[i][1] <= list[j][1]

----------------------------------------------------------------------------
(* Where DataFormatError comes from: C22 *)

\* C22: get_stock_history raises DataFormatError only in a call that invoked
\* the provider; a call that found a table at its cache path never raises it.
C22_FormatErrorOnlyAfterFetch ==
    (Hist(last) /\ last.outcome = "DataFormatError") => (last.called /\ last.found # "table")

----------------------------------------------------------------------------
(* The letter case of market and code: C23 *)

\* C23: get_stock_history derives one cache path from a query whatever the
\* letter case of its market and code: the call spelled "US", "AAPL" uses the
\* cache path of the call spelled "us", "aapl", and when a table is cached for
\* either spelling the other is served from it without a provider call.
C23_CaseVariantsShareEntry ==
    (Hist(last) /\ last.req \in CaseRequests /\ last.path # NoPath) =>
        /\ last.path = Normalized[LowerCaseRequest].path
        /\ DOMAIN disk \subseteq {last.path}

----------------------------------------------------------------------------
(* The field sets over one cache entry: C24 *)

ColumnSet(cols) == {cols[i] : i \in DOMAIN cols}

\* a cache file from which the request for the basic field set is answered
AnswersBasic(l) ==
    /\ l.found = "table"
    /\ l.path \in DOMAIN disk
    /\ ColumnSet(BasicColumns) \subseteq ColumnSet(disk[l.path].data.header)

\* C24: a request for the full field set that is answered from the cache entry
\* from which the same query with the basic field set is answered returns a
\* table, and its columns are a strict superset of the basic columns.
C24_FullSupersetOfBasic ==
    (Hist(last) /\ last.req.fields = "full" /\ AnswersBasic(last)) =>
        /\ last.outcome = "ok"
        /\ ColumnSet(BasicColumns) \subseteq ColumnSet(last.ret.cols)
        /\ ColumnSet(BasicColumns) # ColumnSet(last.ret.cols)

----------------------------------------------------------------------------
(* A fetch that yields no data: C25 *)

NoData(l) == Hist(l) /\ l.called /\ l.got.raises = "" /\ (l.got.df = None \/ df_empty(l.got.df))

\* C25: a call of get_stock_history in which the provider returns no table or
\* an empty one leaves the cache files, the inventory and the newest-path
\* pointer as they were and evicts nothing; no usable file is at its cache
\* path afterwards, and a call that finds no usable file at its cache path
\* invokes the provider (unless the source has no history function), so the
\* same call made again asks the provider again.
C25_NoDataPersistsNothing ==
    [][/\ NoData(last') =>
            /\ disk' = disk
            /\ cache_file_list' = cache_file_list
            /\ df_cache_path' = df_cache_path
            /\ last'.evicted = 0 /\ last'.failed = {}
            /\ load_cache(disk', last'.path) = None
       /\ (Hist(last') /\ last'.path # NoPath /\ load_cache(disk, last'.path) = None
           /\ last'.outcome # "DataSourceError") => last'.called
      ]_vars

\* the provider returned an empty table to a call on an empty cache
C25_EmptyTableLeftNoFile ==
    /\ NoData(last)
    /\ last.got.df = TableNoRows
    /\ disk = <<>>
    /\ cache_file_list = <<>>
    /\ df_cache_path = NoPath

----------------------------------------------------------------------------
(* Calls that overlap in two threads: C26, C30 *)

EntriesOf(list, path) == {i \in DOMAIN list : list[i][2] = path}
Removed == UNION {threads[t].removed : t \in Threads}

\* two calls of get_stock_history for one key that both found nothing cached,
\* starting from an empty inventory, have both returned
FetchedTogether ==
    /\ AllReturned
    /\ \A t \in Threads : /\ threads[t].op = "get_stock_history"
                          /\ threads[t].called
                          /\ threads[t].raised = ""
                          /\ threads[t].base = <<>>
    /\ threads[1].path = threads[2].path

\* C26: when two overlapping calls of get_stock_history for one key on an empty
\* cache have both returned, the cache file of the key is there, it holds the
\* table of the call that wrote last, and exactly one inventory entry names it.
C26_LastWriteWins ==
    FetchedTogether =>
        /\ threads[1].path \in DOMAIN disk
        /\ \A t \in Threads : threads[t].wrote_last =>
               disk[threads[1].path].data = to_csv(threads[t].df)
        /\ Cardinality(EntriesOf(cache_file_list, threads[1].path)) = 1

\* two calls of save_cache have both returned
SavedTogether ==
    /\ AllReturned
    /\ \A t \in Threads : threads[t].op = "save_cache"

\* C30: when two overlapping calls of save_cache have both returned, no path is
\* in the inventory twice, the inventory is within the maximum, no more files
\* were deleted than the keys tracked or saved exceed the maximum by, and the
\* file written last, the most recent entry, is not among the deleted.
C30_InventoryHoldsUnderRace ==
    SavedTogether =>
        /\ Cardinality(Paths(cache_file_list)) = Len(cache_file_list)
        /\ Len(cache_file_list) <= MAX_CACHE_ENTRIES
        /\ Cardinality(Removed)
             <= Cardinality(Paths(threads[1].base)
                            \cup {threads[t].path : t \in Threads}) - MAX_CACHE_ENTRIES
             \/ Removed = {}
        /\ \A t \in Threads : threads[t].wrote_last => threads[t].path \notin Removed

----------------------------------------------------------------------------
(* A cache hit and the requested source: C27 *)

\* C27: a call of get_stock_history that names a registered source (or none)
\* and finds a usable table at its cache path is answered from that file
\* without a provider call, whichever source was named: one that differs from
\* the source that filled the entry, or one that has no history function. It
\* raises no DataSourceError, moves the newest-path pointer to the file, and
\* returns the required columns of the cached table when the file has them.
C27_HitWhateverTheSource ==
    (Hist(last) /\ last.found = "table") =>
        /\ resolve_source(last.req.source, DEFAULT_SOURCE) \in DOMAIN SOURCE_REGISTRY
        /\ ~last.called
        /\ last.outcome \in {"ok", "DataFormatError"}
        /\ df_cache_path = last.path
        /\ Lacking(last) = <<>> =>
               /\ last.outcome = "ok"
               /\ last.ret = DF(Required(last), SourceRows(last))

\* a call naming tushare, registered without a history function, was answered
\* from the entry a fetch from the default source had filled
C27_HitForSourceWithoutHistory ==
    /\ Hist(last)
    /\ last.found = "table"
    /\ last.outcome = "ok"
    /\ str_lower(last.req.source) = TUSHARE
    /\ TUSHARE \in DOMAIN SOURCE_REGISTRY
    /\ HISTORY \notin DOMAIN SOURCE_REGISTRY[TUSHARE]

----------------------------------------------------------------------------
(* One inventory entry per cache file: C28 *)

Resaved(path) ==
    /\ last'.op = "save_cache"
    /\ last'.outcome = "ok"
    /\ last'.path = path
    /\ path \in Paths(cache_file_list)

\* C28: after every save_cache, init_cache_manager and set_max_cache_entries
\* no path is in the inventory twice; a save to a key that is tracked (the
\* inventory being within the maximum) replaces the entry of the key by one
\* with the new modification time, keeps every other entry, leaves the count
\* as it was, and evicts nothing.
C28_OneEntryPerPath ==
    [][/\ Cardinality(Paths(cache_file_list')) = Len(cache_file_list')
       /\ \A path \in Paths(cache_file_list) :
              (Resaved(path) /\ Len(cache_file_list) <= MAX_CACHE_ENTRIES) =>
                  /\ Len(cache_file_list') = Len(cache_file_list)
                  /\ last'.evicted = 0
                  /\ DOMAIN disk' = DOMAIN disk
                  /\ <<disk'[path].mtime, path>> \in Entries(cache_file_list')
                  /\ {e \in Entries(cache_file_list') : e[2] # path}
                         = {e \in Entries(cache_file_list) : e[2] # path}
      ]_vars

\* a key that was tracked has been saved again a tick later, next to another
\* (the maximum was never lowered, so its file was tracked)
C28_ResavedNextToAnother ==
    /\ last.op = "save_cache"
    /\ last.outcome = "ok"
    /\ last.found = "table"
    /\ MAX_CACHE_ENTRIES = ModuleMaxCacheEntries
    /\ Len(cache_file_list) = 2
    /\ cache_file_list[2] = <<1, last.path>>
    /\ cache_file_list[1][1] = 0

----------------------------------------------------------------------------
(* The newest-path pointer and eviction: C29 *)

\* C29: whenever the newest-path pointer is not empty the file it names is on
\* disk: no eviction pass, of a save or of set_max_cache_entries, deletes the
\* file the pointer refers to.
C29_PointerNamesExistingFile ==
    df_cache_path # NoPath => df_cache_path \in DOMAIN disk

====
